---- MODULE Spec2Model ----
(***************************************************************************)
(* ACP turn dispatch: the delivery coordinator                             *)
(* (createAcpDispatchDeliveryCoordinator) and the turn dispatch controller *)
(* (tryDispatchAcpReply) that drives it.                                   *)
(*                                                                         *)
(* Strings are sequences of one-character strings, so that trim(), length  *)
(* and concatenation are computed as the code computes them.               *)
(***************************************************************************)
EXTENDS Integers, Sequences, FiniteSets, TLC

\* ------------------------------------------------------------------ bounds

\* The number of coordinator calls (startReplyLifecycle / deliver) explored.
MaxCalls == 3

\* The number of events the runtime hands to onEvent in one turn.
MaxEvents == 3

\* The capacity of the Slack thread participation cache (5000 in the code),
\* its time to live (24 hours in the code) and the last clock value explored.
MAX_ENTRIES == 3

TTL_MS == 1

MaxNow == 2

\* The number of overlapping calls that start the reply lifecycle.
MaxTasks == 3

\* start() and stop() calls made on the acpx runtime service.
MaxLifecycleCalls == 3

\* Failed connections of the Slack socket that are followed.
MaxFailures == 13

\* ----------------------------------------------------------------- strings

NL == "\n"

\* The characters String.prototype.trim() removes, among those the model uses.
Whitespace == {" ", NL}

RECURSIVE TrimStart(_)
TrimStart(s) ==
  IF s = <<>> THEN s
  ELSE IF Head(s) \in Whitespace THEN TrimStart(Tail(s)) ELSE s

RECURSIVE TrimEnd(_)
TrimEnd(s) ==
  IF s = <<>> THEN s
  ELSE IF s[Len(s)] \in Whitespace THEN TrimEnd(SubSeq(s, 1, Len(s) - 1)) ELSE s

\* String.prototype.trim()
Trim(s) == TrimEnd(TrimStart(s))

\* ------------------------------------------------------------------ inputs

ReplyDispatchKind == {"tool", "block", "final"}

\* ReplyPayload: text (hasText = FALSE when the field is absent), mediaUrl
\* ("" when absent), mediaUrls (<<>> when absent or empty).
Payload(hasText, text, mediaUrl, mediaUrls) ==
  [hasText |-> hasText, text |-> text, mediaUrl |-> mediaUrl, mediaUrls |-> mediaUrls]

EmptyPayload == Payload(FALSE, <<>>, "", <<>>)

TextPayload(text) == Payload(TRUE, text, "", <<>>)

Payloads ==
  { EmptyPayload,
    TextPayload(<<" ">>),
    TextPayload(<<"a">>),
    TextPayload(<<" ", "b">>),
    Payload(FALSE, <<>>, "u", <<>>),
    Payload(TRUE, <<>>, "", <<"u">>) }

ToolPayloads ==
  { EmptyPayload,
    TextPayload(<<" ">>),
    TextPayload(<<"a">>),
    Payload(TRUE, <<>>, "", <<"u">>) }

\* AcpDispatchDeliveryMeta: toolCallId (<<>> when absent), allowEdit (FALSE
\* when absent; the code tests allowEdit === true).
Meta(toolCallId, allowEdit) == [toolCallId |-> toolCallId, allowEdit |-> allowEdit]

NoMeta == Meta(<<>>, FALSE)

ToolCallIds == { <<>>, <<"c">>, <<" ", "c">> }

Metas == { NoMeta, Meta(<<"c">>, FALSE), Meta(<<"c">>, TRUE), Meta(<<" ", "c">>, TRUE) }

\* What the collaborators can answer.

\* params.onReplyStart: resolves, or throws / rejects.
CallbackOutcomes == {"ok", "throw"}

\* maybeApplyTtsToPayload: the payload unchanged (TTS disabled or not
\* applicable), or the payload with an audio mediaUrl added.
TtsOutcomes == {"pass", "audio"}

\* runMessageAction({action: "edit"}): resolves, or throws / rejects.
EditOutcomes == {"ok", "throw"}

MessageIds == {"m1", "m2"}

NoMessageId == ""

RouteResult(threw, ok, messageId) == [threw |-> threw, ok |-> ok, messageId |-> messageId]

\* routeReply: {ok: true, messageId?}, {ok: false}, or a rejection.
RouteOutcomes ==
  { RouteResult(FALSE, TRUE, m) : m \in MessageIds \cup {NoMessageId} }
    \cup { RouteResult(FALSE, FALSE, NoMessageId), RouteResult(TRUE, FALSE, NoMessageId) }

\* A dispatcher send method: true, false, or a throw.
SendOutcomes == {"true", "false", "throw"}

\* ------------------------------------------------------------------- state

VARIABLES
  shouldRouteToOriginating,  \* params.shouldRouteToOriginating
  originatingChannel,        \* params.originatingChannel ("" when absent)
  originatingTo,             \* params.originatingTo ("" when absent)
  startedReplyLifecycle,     \* state.startedReplyLifecycle
  accumulatedBlockText,      \* state.accumulatedBlockText
  blockCount,                \* state.blockCount
  routedCounts,              \* state.routedCounts
  toolMessageByCallId,       \* state.toolMessageByCallId
  onReplyStartCalls,         \* invocations of params.onReplyStart
  calls,                     \* coordinator calls made so far
  last,                      \* what the last coordinator call did
  blockLog,                  \* texts of the block deliveries with visible text
  trueReturns,               \* deliver(kind, ...) calls that returned true
  lifecycleRequested,        \* some call so far asked for lifecycle start
  prompt,                    \* the turn's prompt text
  dispatchPolicyError,       \* resolveAcpDispatchPolicyError(cfg): a code, or "" for null
  agentPolicyError,          \* resolveAcpAgentPolicyError(cfg, agent): a code, or "" for null
  resolution,                \* resolveSession(...).kind
  tagVisibility,             \* cfg.acp.stream.tagVisibility, defaults applied
  pc,                        \* the turn's state
  runTurnCalls,              \* invocations of the runtime's runTurn
  eventsSeen,                \* onEvent calls made by the runtime
  deliveries,                \* deliver() calls made by the controller, per kind
  sinkCalls,                 \* calls that reached each sink during the turn
  result,                    \* what tryDispatchAcpReply resolved to
  eventLog,                  \* the events the runtime handed to onEvent, in order
  inFlight,                  \* deliver() calls of the controller that have not resolved
  sinkLog,                   \* the controller's deliver() calls that ran, in order
  line,                      \* the protocol line handed to parsePromptEventLine
  projected,                 \* what parsePromptEventLine returned for it
  threadParticipation,       \* the Slack cache: its entries in insertion order
  now,                       \* Date.now()
  recorded,                  \* the triples recorded whose entry is still in the cache
  cacheLast,                 \* the last call on the Slack cache and what it did
  tasks,                     \* the overlapping calls of startReplyLifecycleOnce
  active,                    \* which of two coordinators the coordinator variables hold
  peer,                      \* the state object of the other coordinator
  service,                   \* the acpx runtime service and its setup tasks
  monitor                    \* the Slack socket-mode reconnect loop

coordVars ==
  << shouldRouteToOriginating, originatingChannel, originatingTo,
     startedReplyLifecycle, accumulatedBlockText, blockCount, routedCounts,
     toolMessageByCallId, onReplyStartCalls, calls, last, blockLog,
     trueReturns, lifecycleRequested >>

turnVars ==
  << prompt, dispatchPolicyError, agentPolicyError, resolution, tagVisibility,
     pc, runTurnCalls, eventsSeen, deliveries, sinkCalls, result,
     eventLog, inFlight, sinkLog >>

parseVars == << line, projected >>

cacheVars == << threadParticipation, now, recorded, cacheLast >>

pairVars == << active, peer >>

moreVars == << pairVars, service, monitor >>

vars == << coordVars, turnVars, parseVars, cacheVars, tasks, moreVars >>

\* ------------------------------------------------- the event projector

\* A JSON value as JSON.parse builds it.  `t` is its kind: "null", "bool",
\* "num", "inf" (a number that is not finite), "str", "arr", "obj", or
\* "undefined" for a property that is absent.  A string is a sequence of
\* characters, an object a sequence of keys with the sequence of their values.
JValue(t, b, n, s, keys, items) ==
  [t |-> t, b |-> b, n |-> n, s |-> s, keys |-> keys, items |-> items]

JUndefined == JValue("undefined", FALSE, 0, <<>>, <<>>, <<>>)

JStr(s) == JValue("str", FALSE, 0, s, <<>>, <<>>)

JNum(n) == JValue("num", FALSE, n, <<>>, <<>>, <<>>)

JArr(items) == JValue("arr", FALSE, 0, <<>>, <<>>, items)

JObj(keys, items) == JValue("obj", FALSE, 0, <<>>, keys, items)

Quote == "\""

\* The number literals of the lines, and the numbers they denote.
NumberAtoms == {"0", "1", "12", "500", "1.0", "1e999"}

NumberValue(atom) ==
  CASE atom = "0" -> JNum(0)
    [] atom \in {"1", "1.0"} -> JNum(1)
    [] atom = "12" -> JNum(12)
    [] atom = "500" -> JNum(500)
    [] OTHER -> JValue("inf", FALSE, 0, <<>>, <<>>, <<>>)

\* String(n), as template literals and JSON.stringify write a number.
NumberText(n) ==
  CASE n = 0 -> "0" [] n = 1 -> "1" [] n = 2 -> "2" [] n = 12 -> "12" [] OTHER -> "500"

RECURSIVE SkipWs(_, _)
SkipWs(a, i) == IF i <= Len(a) /\ a[i] \in Whitespace THEN SkipWs(a, i + 1) ELSE i

\* The position of the quote that closes a string, 0 when there is none.
RECURSIVE StringEnd(_, _)
StringEnd(a, i) ==
  IF i > Len(a) THEN 0 ELSE IF a[i] = Quote THEN i ELSE StringEnd(a, i + 1)

ParseFailure == [ok |-> FALSE, val |-> JUndefined, next |-> 0]

ParsedTo(val, next) == [ok |-> TRUE, val |-> val, next |-> next]

\* JSON.parse, by recursive descent over the characters from position i.
RECURSIVE ParseValue(_, _), ParseElements(_, _, _), ParseMembers(_, _, _, _)
ParseValue(a, i0) ==
  LET i == SkipWs(a, i0)
  IN  IF i > Len(a) THEN ParseFailure
      ELSE IF a[i] = "null" THEN ParsedTo(JValue("null", FALSE, 0, <<>>, <<>>, <<>>), i + 1)
      ELSE IF a[i] \in {"true", "false"}
        THEN ParsedTo(JValue("bool", a[i] = "true", 0, <<>>, <<>>, <<>>), i + 1)
      ELSE IF a[i] \in NumberAtoms THEN ParsedTo(NumberValue(a[i]), i + 1)
      ELSE IF a[i] = Quote
        THEN (IF StringEnd(a, i + 1) = 0 THEN ParseFailure
              ELSE ParsedTo(JStr(SubSeq(a, i + 1, StringEnd(a, i + 1) - 1)),
                            StringEnd(a, i + 1) + 1))
      ELSE IF a[i] = "["
        THEN (IF SkipWs(a, i + 1) <= Len(a) /\ a[SkipWs(a, i + 1)] = "]"
                THEN ParsedTo(JArr(<<>>), SkipWs(a, i + 1) + 1)
                ELSE ParseElements(a, i + 1, <<>>))
      ELSE IF a[i] = "{"
        THEN (IF SkipWs(a, i + 1) <= Len(a) /\ a[SkipWs(a, i + 1)] = "}"
                THEN ParsedTo(JObj(<<>>, <<>>), SkipWs(a, i + 1) + 1)
                ELSE ParseMembers(a, i + 1, <<>>, <<>>))
      ELSE ParseFailure

ParseElements(a, i, items) ==
  LET v == ParseValue(a, i)
      j == SkipWs(a, v.next)
  IN  IF ~v.ok \/ j > Len(a) THEN ParseFailure
      ELSE IF a[j] = "," THEN ParseElements(a, j + 1, Append(items, v.val))
      ELSE IF a[j] = "]" THEN ParsedTo(JArr(Append(items, v.val)), j + 1)
      ELSE ParseFailure

ParseMembers(a, i0, keys, items) ==
  LET i == SkipWs(a, i0)
      keyEnd == StringEnd(a, i + 1)
      colon == SkipWs(a, keyEnd + 1)
      v == ParseValue(a, colon + 1)
      j == SkipWs(a, v.next)
      keys1 == Append(keys, SubSeq(a, i + 1, keyEnd - 1))
      items1 == Append(items, v.val)
  IN  IF i > Len(a) \/ a[i] # Quote \/ keyEnd = 0 THEN ParseFailure
      ELSE IF colon > Len(a) \/ a[colon] # ":" THEN ParseFailure
      ELSE IF ~v.ok \/ j > Len(a) THEN ParseFailure
      ELSE IF a[j] = "," THEN ParseMembers(a, j + 1, keys1, items1)
      ELSE IF a[j] = "}" THEN ParsedTo(JObj(keys1, items1), j + 1)
      ELSE ParseFailure

\* JSON.parse(text): the value, or a failure (a SyntaxError is thrown) when
\* the text is not one JSON value.
JsonParse(text) ==
  LET r == ParseValue(text, 1)
  IN  IF r.ok /\ SkipWs(text, r.next) > Len(text) THEN r ELSE ParseFailure

\* JSON.stringify(value)
RECURSIVE JsonStringify(_), StringifyItems(_, _, _)
JsonStringify(v) ==
  CASE v.t = "null" -> <<"null">>
    [] v.t = "bool" -> <<IF v.b THEN "true" ELSE "false">>
    [] v.t = "num" -> <<NumberText(v.n)>>
    [] v.t = "str" -> <<Quote>> \o v.s \o <<Quote>>
    [] v.t = "arr" -> <<"[">> \o StringifyItems(<<>>, v.items, 1) \o <<"]">>
    [] v.t = "obj" -> <<"{">> \o StringifyItems(v.keys, v.items, 1) \o <<"}">>
    [] OTHER -> <<"null">>

StringifyItems(keys, items, i) ==
  IF i > Len(items) THEN <<>>
  ELSE (IF i > 1 THEN <<",">> ELSE <<>>)
       \o (IF keys # <<>> THEN <<Quote>> \o keys[i] \o <<Quote, ":">> ELSE <<>>)
       \o JsonStringify(items[i]) \o StringifyItems(keys, items, i + 1)

\* value[key]: the property of an object (of the last member with that key,
\* as JSON.parse keeps it), undefined when it has none.
Get(value, key) ==
  IF value.t = "obj" /\ \E i \in 1..Len(value.keys) : value.keys[i] = key
    THEN value.items[CHOOSE i \in 1..Len(value.keys) :
                       /\ value.keys[i] = key
                       /\ \A j \in (i + 1)..Len(value.keys) : value.keys[j] # key]
    ELSE JUndefined

\* shared.js
IsRecord(value) == value.t = "obj"

AsString(value) == [has |-> value.t = "str", s |-> IF value.t = "str" THEN value.s ELSE <<>>]

AsTrimmedString(value) == IF value.t = "str" THEN Trim(value.s) ELSE <<>>

\* The trimmed string, absent (<<>>) when it is empty or not a string.
AsOptionalString(value) == AsTrimmedString(value)

AsOptionalBoolean(value) ==
  IF value.t = "bool" THEN (IF value.b THEN "true" ELSE "false") ELSE "absent"

AsOptionalFiniteNumber_AnyNumber(value) ==
  [has |-> value.t \in {"num", "inf"}, n |-> IF value.t = "num" THEN value.n ELSE 0]

AsOptionalFiniteNumber(value) == [has |-> value.t = "num", n |-> IF value.t = "num" THEN value.n ELSE 0]

Absent == [has |-> FALSE, n |-> 0]

\* An AcpRuntimeEvent.  An optional string that is absent is <<>>, an
\* optional boolean that is absent is "absent".
RuntimeEvent(type, text, stream, tag) ==
  [type |-> type, text |-> text, stream |-> stream, tag |-> tag,
   toolCallId |-> <<>>, status |-> <<>>, title |-> <<>>,
   used |-> Absent, size |-> Absent,
   stopReason |-> <<>>, message |-> <<>>, code |-> <<>>, retryable |-> "absent"]

\* parsePromptEventLine returned null.
NullEvent == RuntimeEvent("null", <<>>, "", <<>>)

\* parsePromptEventLine was not called.
NotParsed == RuntimeEvent("none", <<>>, "", <<>>)

ResolveStructuredPromptPayload_OuterTypeFirst(parsed) ==
  LET update == Get(Get(parsed, <<"params">>), <<"update">>)
      sessionUpdate == AsOptionalString(Get(parsed, <<"sessionUpdate">>))
  IN  IF AsTrimmedString(Get(parsed, <<"type">>)) # <<>>
        THEN [type |-> AsTrimmedString(Get(parsed, <<"type">>)),
              payload |-> parsed,
              tag |-> AsOptionalString(Get(parsed, <<"tag">>))]
      ELSE IF AsTrimmedString(Get(parsed, <<"method">>)) = <<"session/update">>
         /\ IsRecord(Get(parsed, <<"params">>)) /\ IsRecord(update)
        THEN [type |-> AsOptionalString(Get(update, <<"sessionUpdate">>)),
              payload |-> update,
              tag |-> AsOptionalString(Get(update, <<"sessionUpdate">>))]
      ELSE [type |-> sessionUpdate, payload |-> parsed, tag |-> sessionUpdate]

\* The type and tag a record is dispatched on, and the payload its fields
\* are read from.
ResolveStructuredPromptPayload(parsed) ==
  LET update == Get(Get(parsed, <<"params">>), <<"update">>)
      sessionUpdate == AsOptionalString(Get(parsed, <<"sessionUpdate">>))
  IN  IF AsTrimmedString(Get(parsed, <<"method">>)) = <<"session/update">>
         /\ IsRecord(Get(parsed, <<"params">>)) /\ IsRecord(update)
        THEN [type |-> AsOptionalString(Get(update, <<"sessionUpdate">>)),
              payload |-> update,
              tag |-> AsOptionalString(Get(update, <<"sessionUpdate">>))]
      ELSE IF sessionUpdate # <<>>
        THEN [type |-> sessionUpdate, payload |-> parsed, tag |-> sessionUpdate]
      ELSE [type |-> AsTrimmedString(Get(parsed, <<"type">>)),
            payload |-> parsed,
            tag |-> AsOptionalString(Get(parsed, <<"tag">>))]

\* a || b || c of trimmed strings: the first that is not empty.
FirstNonEmpty(texts) ==
  IF \E i \in 1..Len(texts) : texts[i] # <<>>
    THEN texts[CHOOSE i \in 1..Len(texts) :
                 texts[i] # <<>> /\ \A j \in 1..(i - 1) : texts[j] = <<>>]
    ELSE <<>>

GenericStatusText_None(tag) == <<>>

\* The status text of a session update that carries no detail, <<>> for null.
GenericStatusText(tag) ==
  CASE tag = <<"available_commands_update">> -> <<"available commands updated">>
    [] tag = <<"current_mode_update">> -> <<"mode updated">>
    [] tag = <<"config_option_update">> -> <<"config updated">>
    [] tag = <<"session_info_update">> -> <<"session updated">>
    [] OTHER -> <<>>

\* The status text of a session update, <<>> for null.
ResolveStatusTextForTag(tag, payload) ==
  LET Field(name) == AsTrimmedString(Get(payload, <<name>>))
      commands == Get(payload, <<"availableCommands">>)
      mode == FirstNonEmpty(<<Field("currentModeId"), Field("modeId"), Field("mode")>>)
      id == FirstNonEmpty(<<Field("id"), Field("configOptionId")>>)
      value == FirstNonEmpty(<<Field("currentValue"), Field("value"), Field("optionValue")>>)
      entries == IF Get(payload, <<"entries">>).t = "arr"
                   THEN Get(payload, <<"entries">>).items ELSE <<>>
      content == IF \E i \in 1..Len(entries) : IsRecord(entries[i])
                   THEN AsTrimmedString(Get(
                          entries[CHOOSE i \in 1..Len(entries) :
                                    IsRecord(entries[i])
                                    /\ \A j \in 1..(i - 1) : ~IsRecord(entries[j])],
                          <<"content">>))
                   ELSE <<>>
  IN  CASE tag = <<"available_commands_update">> ->
             (IF commands.t = "arr" /\ Len(commands.items) > 0
                THEN <<"available commands updated (", NumberText(Len(commands.items)), ")">>
                ELSE GenericStatusText(tag))
        [] tag = <<"current_mode_update">> ->
             (IF mode # <<>> THEN <<"mode updated: ">> \o mode ELSE GenericStatusText(tag))
        [] tag = <<"config_option_update">> ->
             (IF id # <<>> /\ value # <<>> THEN <<"config updated: ">> \o id \o <<"=">> \o value
              ELSE IF id # <<>> THEN <<"config updated: ">> \o id
              ELSE GenericStatusText(tag))
        [] tag = <<"session_info_update">> ->
             FirstNonEmpty(<<Field("summary"), Field("message"), GenericStatusText(tag)>>)
        [] tag = <<"plan">> ->
             (IF content # <<>> THEN <<"plan: ">> \o content ELSE GenericStatusText(tag))
        [] OTHER -> <<>>

ResolveTextChunk_IgnoresContentType(payload, stream, tag) ==
  LET contentRaw == Get(payload, <<"content">>)
      nested == AsString(Get(contentRaw, <<"text">>))
      text == AsString(Get(payload, <<"text">>))
  IN  IF IsRecord(contentRaw) /\ nested.has /\ Len(nested.s) > 0
        THEN RuntimeEvent("text_delta", nested.s, stream, tag)
      ELSE IF ~text.has \/ Len(text.s) = 0 THEN NullEvent
      ELSE RuntimeEvent("text_delta", text.s, stream, tag)

\* The text_delta of a message or thought chunk, null when it has no text.
ResolveTextChunk(payload, stream, tag) ==
  LET contentRaw == Get(payload, <<"content">>)
      contentType == AsTrimmedString(Get(contentRaw, <<"type">>))
      nested == AsString(Get(contentRaw, <<"text">>))
      text == AsString(Get(payload, <<"text">>))
  IN  IF IsRecord(contentRaw) /\ contentType # <<>> /\ contentType # <<"text">>
        THEN NullEvent
      ELSE IF IsRecord(contentRaw) /\ nested.has /\ Len(nested.s) > 0
        THEN RuntimeEvent("text_delta", nested.s, stream, tag)
      ELSE IF ~text.has \/ Len(text.s) = 0 THEN NullEvent
      ELSE RuntimeEvent("text_delta", text.s, stream, tag)

\* The event of a tool_call or tool_call_update record.
ToolCallEvent(payload, tag) ==
  LET title == FirstNonEmpty(<<AsTrimmedString(Get(payload, <<"title">>)), <<"tool call">>>>)
      status == AsTrimmedString(Get(payload, <<"status">>))
  IN  [RuntimeEvent("tool_call",
                    IF status # <<>> THEN title \o <<" (">> \o status \o <<")">> ELSE title,
                    "", tag)
         EXCEPT !.toolCallId = AsOptionalString(Get(payload, <<"toolCallId">>)),
                !.status = status, !.title = title]

DefaultErrorMessage_Generic == <<"runtime error">>

\* The message of an error record that has none.
DefaultErrorMessage == <<"acpx runtime error">>

\* The event of a record, by its type.
ProjectRecord(type, payload, tag) ==
  LET content == AsString(Get(payload, <<"content">>))
      used == AsOptionalFiniteNumber(Get(payload, <<"used">>))
      size == AsOptionalFiniteNumber(Get(payload, <<"size">>))
      statusText == ResolveStatusTextForTag(type, payload)
      Field(name) == AsTrimmedString(Get(payload, <<name>>))
      operation == <<FirstNonEmpty(<<Field("method"), <<"operation">>>>),
                     Field("status"), Field("summary")>>
      JoinWords(a, b, c) ==
        a \o (IF b # <<>> THEN <<" ">> \o b ELSE <<>>) \o (IF c # <<>> THEN <<" ">> \o c ELSE <<>>)
  IN  CASE type \in {<<"text">>, <<"thought">>} ->
             (IF ~content.has \/ Len(content.s) = 0 THEN NullEvent
              ELSE RuntimeEvent("text_delta", content.s,
                                IF type = <<"text">> THEN "output" ELSE "thought", tag))
        [] type \in {<<"tool_call">>, <<"tool_call_update">>} ->
             ToolCallEvent(payload, IF tag # <<>> THEN tag ELSE type)
        [] type = <<"agent_message_chunk">> -> ResolveTextChunk(payload, "output", type)
        [] type = <<"agent_thought_chunk">> -> ResolveTextChunk(payload, "thought", type)
        [] type = <<"usage_update">> ->
             [RuntimeEvent("status",
                           IF used.has /\ size.has
                             THEN <<"usage updated: ", NumberText(used.n), "/", NumberText(size.n)>>
                             ELSE <<"usage updated">>,
                           "", type)
                EXCEPT !.used = used, !.size = size]
        [] type \in {<<"available_commands_update">>, <<"current_mode_update">>,
                     <<"config_option_update">>, <<"session_info_update">>, <<"plan">>} ->
             (IF statusText = <<>> THEN NullEvent
              ELSE RuntimeEvent("status", statusText, "", type))
        [] type = <<"client_operation">> ->
             RuntimeEvent("status", JoinWords(operation[1], operation[2], operation[3]), "", tag)
        [] type = <<"update">> ->
             (IF Field("update") = <<>> THEN NullEvent
              ELSE RuntimeEvent("status", Field("update"), "", tag))
        [] type = <<"done">> ->
             [RuntimeEvent("done", <<>>, "", <<>>)
                EXCEPT !.stopReason = AsOptionalString(Get(payload, <<"stopReason">>))]
        [] type = <<"error">> ->
             [RuntimeEvent("error", <<>>, "", <<>>)
                EXCEPT !.message = FirstNonEmpty(<<Field("message"), DefaultErrorMessage>>),
                       !.code = AsOptionalString(Get(payload, <<"code">>)),
                       !.retryable = AsOptionalBoolean(Get(payload, <<"retryable">>))]
        [] OTHER -> NullEvent

\* parsePromptEventLine(line)
ParsePromptEventLine(text) ==
  LET trimmed == Trim(text)
      json == JsonParse(trimmed)
      structured == ResolveStructuredPromptPayload(json.val)
  IN  IF trimmed = <<>> THEN NullEvent
      ELSE IF ~json.ok THEN RuntimeEvent("status", trimmed, "", <<>>)
      ELSE IF ~IsRecord(json.val) THEN NullEvent
      ELSE ProjectRecord(structured.type, structured.payload, structured.tag)

\* -------------------------------------------- what the claims speak about

\* Text with at least one character that is not whitespace.
HasNonWhitespace(hasText, text) ==
  hasText /\ \E i \in 1..Len(text) : text[i] \notin Whitespace

\* A payload with visible content: non-whitespace text, a mediaUrl, or a
\* non-empty mediaUrls list.
IsVisiblePayload(p) ==
  HasNonWhitespace(p.hasText, p.text) \/ p.mediaUrl # "" \/ p.mediaUrls # <<>>

\* The texts joined by single newlines, nothing before or after.
RECURSIVE JoinLines(_)
JoinLines(texts) ==
  IF texts = <<>> THEN <<>>
  ELSE IF Len(texts) = 1 THEN texts[1]
  ELSE texts[1] \o <<NL>> \o JoinLines(Tail(texts))

\* ------------------------------------------------- the delivery coordinator

Handle(channel, to, messageId) == [channel |-> channel, to |-> to, messageId |-> messageId]

\* Map.get() of a call id with no entry: undefined (no messageId).
NoHandle == Handle("", "", NoMessageId)

ZeroCounts == [k \in ReplyDispatchKind |-> 0]

\* payload.text?.trim() ?? ""
TrimmedText(payload) == IF payload.hasText THEN Trim(payload.text) ELSE <<>>

AccumulatesBlock_AnyText(kind, payload) == kind = "block" /\ payload.hasText

\* if (kind === "block" && payload.text?.trim())
AccumulatesBlock(kind, payload) == kind = "block" /\ Len(TrimmedText(payload)) > 0

\* accumulatedBlockText += "\n" when non-empty, then += payload.text
AppendBlockText(acc, text) == (IF Len(acc) > 0 THEN Append(acc, NL) ELSE acc) \o text

HasVisibleContent_Untrimmed(payload) ==
  \/ (payload.hasText /\ Len(payload.text) > 0)
  \/ payload.mediaUrl # ""
  \/ Len(payload.mediaUrls) > 0

\* (payload.text?.trim() ?? "").length > 0 || payload.mediaUrl || payload.mediaUrls?.length
HasVisibleContent(payload) ==
  \/ Len(TrimmedText(payload)) > 0
  \/ payload.mediaUrl # ""
  \/ Len(payload.mediaUrls) > 0

StartReplyLifecycleOnce_NoLatch(started, outcome) ==
  [started |-> TRUE, invoked |-> 1, threw |-> outcome = "throw"]

\* startReplyLifecycleOnce: the latch after the call, how often onReplyStart
\* was invoked, and whether the call threw.
StartReplyLifecycleOnce(started, outcome) ==
  IF started
    THEN [started |-> TRUE, invoked |-> 0, threw |-> FALSE]
    ELSE [started |-> TRUE, invoked |-> 1, threw |-> outcome = "throw"]

\* maybeApplyTtsToPayload: audio is added as media, the text is kept.
ApplyTts(payload, outcome) ==
  IF outcome = "audio" THEN [payload EXCEPT !.mediaUrl = "tts-audio"] ELSE payload

RoutesToOriginating_FlagOnly == shouldRouteToOriginating

\* params.shouldRouteToOriginating && params.originatingChannel && params.originatingTo
RoutesToOriginating ==
  shouldRouteToOriginating /\ originatingChannel # "" /\ originatingTo # ""

EditRequested_IgnoresAllowEdit(kind, meta) ==
  kind = "tool" /\ Len(Trim(meta.toolCallId)) > 0

\* kind === "tool" && meta?.allowEdit === true && toolCallId  (toolCallId trimmed)
EditRequested(kind, meta) ==
  kind = "tool" /\ meta.allowEdit /\ Len(Trim(meta.toolCallId)) > 0

EditFailurePropagates == FALSE

\* The catch of tryEditToolMessage: a throwing edit action is logged and
\* answered with false.
CatchesEditFailure == TRUE

CountEdit_Forgotten(counts) == counts

\* state.routedCounts.tool += 1 after a successful edit
CountEdit(counts) == [counts EXCEPT !["tool"] = @ + 1]

NoEdit == [attempted |-> 0, edited |-> FALSE, threw |-> FALSE, messageId |-> NoMessageId]

\* tryEditToolMessage(payload, toolCallId): whether the edit action was
\* attempted, with which messageId, and the boolean answered.
TryEditToolMessage(payload, toolCallId, outcome) ==
  LET handle == toolMessageByCallId[toolCallId]
      message == TrimmedText(payload)
  IN  IF ~RoutesToOriginating THEN NoEdit
      ELSE IF handle.messageId = NoMessageId THEN NoEdit
      ELSE IF Len(message) = 0 THEN NoEdit
      ELSE [attempted |-> 1,
            edited |-> outcome = "ok",
            threw |-> outcome = "throw" /\ ~CatchesEditFailure,
            messageId |-> handle.messageId]

ReturnsAfterEdit_Never(edited) == FALSE

\* if (edited) return true
ReturnsAfterEdit(edited) == edited

\* kind === "tool" && meta?.toolCallId && result.messageId
RecordsHandle(kind, meta, messageId) ==
  kind = "tool" /\ Len(meta.toolCallId) > 0 /\ messageId # NoMessageId

\* state.toolMessageByCallId.set(meta.toolCallId, {...})
SetHandle_KeepsFirst(map, meta, messageId) ==
  IF map[meta.toolCallId].messageId # NoMessageId THEN map
  ELSE [map EXCEPT ![meta.toolCallId] = Handle(originatingChannel, originatingTo, messageId)]

SetHandle(map, meta, messageId) ==
  [map EXCEPT ![meta.toolCallId] = Handle(originatingChannel, originatingTo, messageId)]

\* state.routedCounts[kind] += 1 after a successful routeReply
CountRouted(counts, kind) == [counts EXCEPT ![kind] = @ + 1]

DirectMethod_FinalAsBlock(kind) ==
  IF kind = "tool" THEN "sendToolResult" ELSE "sendBlockReply"

\* The dispatcher method of the direct path.
DirectMethod(kind) ==
  IF kind = "tool" THEN "sendToolResult"
  ELSE IF kind = "block" THEN "sendBlockReply"
  ELSE "sendFinalReply"

\* What a coordinator call is seen to do from outside: the value deliver()
\* resolves to ("true", "false", or "threw" when it rejects) and the calls
\* made on the collaborators.
CallRecord(op, kind, payload, meta) ==
  [ op |-> op, kind |-> kind, payload |-> payload, meta |-> meta,
    returned |-> "void",
    requested |-> FALSE,          \* startReplyLifecycleOnce() was called
    invoked |-> 0,                \* onReplyStart invocations
    handleMessageId |-> NoMessageId, \* messageId recorded for the trimmed call id before the call
    edits |-> 0, editOutcome |-> "none", editMessageId |-> NoMessageId,
    routes |-> 0, routeOutcome |-> "none",
    routeMessageId |-> NoMessageId,  \* messageId routeReply answered
    method |-> "none", sendOutcome |-> "none",
    sent |-> EmptyPayload ]

NoCall == CallRecord("none", "final", EmptyPayload, NoMeta)

\* The routed branch of deliver(): edit in place when asked and possible,
\* else routeReply.  `st` is the coordinator state reached so far, `rec` the
\* call record so far.
RoutedDeliver(st, rec, kind, ttsPayload, meta, editOut, routeOut) ==
  LET toolCallId == Trim(meta.toolCallId)
      edit == IF EditRequested(kind, meta)
                THEN TryEditToolMessage(ttsPayload, toolCallId, editOut)
                ELSE NoEdit
      rec1 == [rec EXCEPT !.edits = edit.attempted,
                          !.editOutcome = IF edit.attempted = 1 THEN editOut ELSE "none",
                          !.editMessageId = edit.messageId]
      st1 == [st EXCEPT !.counts = IF edit.edited THEN CountEdit(@) ELSE @]
      rec2 == [rec1 EXCEPT !.routes = 1, !.sent = ttsPayload]
  IN  IF edit.threw
        THEN [st |-> st1, rec |-> [rec1 EXCEPT !.returned = "threw"]]
      ELSE IF ReturnsAfterEdit(edit.edited)
        THEN [st |-> st1, rec |-> [rec1 EXCEPT !.returned = "true"]]
      ELSE IF routeOut.threw
        THEN [st |-> st1,
              rec |-> [rec2 EXCEPT !.routeOutcome = "threw", !.returned = "threw"]]
      ELSE IF ~routeOut.ok
        THEN [st |-> st1,
              rec |-> [rec2 EXCEPT !.routeOutcome = "failed", !.returned = "false"]]
      ELSE [st |-> [st1 EXCEPT
                      !.map = IF RecordsHandle(kind, meta, routeOut.messageId)
                                THEN SetHandle(@, meta, routeOut.messageId) ELSE @,
                      !.counts = CountRouted(@, kind)],
            rec |-> [rec2 EXCEPT !.routeOutcome = "ok", !.returned = "true",
                                 !.routeMessageId = routeOut.messageId]]

DirectDeliver_CountsOnlyWhenSent(st, rec, kind, ttsPayload, sendOut) ==
  [st |-> IF sendOut = "true" THEN st
          ELSE [st EXCEPT !.acc = accumulatedBlockText, !.bc = blockCount],
   rec |-> [rec EXCEPT !.method = DirectMethod(kind), !.sendOutcome = sendOut,
                       !.sent = ttsPayload,
                       !.returned = IF sendOut = "throw" THEN "threw" ELSE sendOut]]

\* The direct branch of deliver(): the dispatcher method of the kind, its
\* boolean returned as it is.
DirectDeliver(st, rec, kind, ttsPayload, sendOut) ==
  [st |-> st,
   rec |-> [rec EXCEPT !.method = DirectMethod(kind), !.sendOutcome = sendOut,
                       !.sent = ttsPayload,
                       !.returned = IF sendOut = "throw" THEN "threw" ELSE sendOut]]

\* deliver(kind, payload, meta) as one call, given what the collaborators
\* answer: the coordinator state after it and the record of the call.
DeliverResult(kind, payload, meta, startOut, ttsOut, editOut, routeOut, sendOut) ==
  LET accumulates == AccumulatesBlock(kind, payload)
      life == IF HasVisibleContent(payload)
                THEN StartReplyLifecycleOnce(startedReplyLifecycle, startOut)
                ELSE [started |-> startedReplyLifecycle, invoked |-> 0, threw |-> FALSE]
      st == [ acc |-> IF accumulates
                        THEN AppendBlockText(accumulatedBlockText, payload.text)
                        ELSE accumulatedBlockText,
              bc |-> IF accumulates THEN blockCount + 1 ELSE blockCount,
              started |-> life.started,
              counts |-> routedCounts,
              map |-> toolMessageByCallId ]
      rec == [CallRecord("deliver", kind, payload, meta) EXCEPT
                !.requested = HasVisibleContent(payload),
                !.invoked = life.invoked,
                !.handleMessageId = toolMessageByCallId[Trim(meta.toolCallId)].messageId]
      ttsPayload == ApplyTts(payload, ttsOut)
  IN  IF life.threw THEN [st |-> st, rec |-> [rec EXCEPT !.returned = "threw"]]
      ELSE IF RoutesToOriginating
        THEN RoutedDeliver(st, rec, kind, ttsPayload, meta, editOut, routeOut)
      ELSE DirectDeliver(st, rec, kind, ttsPayload, sendOut)

\* The collaborators a deliver() call can reach, so that an answer nobody
\* asked for is not enumerated.
StartAsked(payload) == HasVisibleContent(payload) /\ ~startedReplyLifecycle

\* Speech is made of the text of a final reply (resolveTtsConfig: mode "final").
TtsChoices(kind, payload) ==
  IF kind = "final" /\ Len(TrimmedText(payload)) > 0 THEN TtsOutcomes ELSE {"pass"}

EditAsked(kind, payload, meta) ==
  /\ RoutesToOriginating
  /\ EditRequested(kind, meta)
  /\ TryEditToolMessage(payload, Trim(meta.toolCallId), "ok").attempted = 1

\* Tool deliveries carry a status line or nothing; blocks and finals carry
\* any payload.
PayloadsOf(kind) == IF kind = "tool" THEN ToolPayloads ELSE Payloads

\* Metadata is read for tool deliveries only, and on the routed path only.
MetasOf(kind) ==
  IF kind # "tool" THEN {NoMeta}
  ELSE IF RoutesToOriginating THEN Metas
  ELSE {NoMeta, Meta(<<"c">>, TRUE)}

\* The messageId routeReply answers is read only when a handle can be recorded.
RouteChoices(kind, meta, routeOuts) ==
  IF ~RoutesToOriginating THEN {RouteResult(FALSE, TRUE, NoMessageId)}
  ELSE IF kind = "tool" /\ Len(meta.toolCallId) > 0 THEN routeOuts
  ELSE {r \in routeOuts : r.messageId = NoMessageId}

\* One deliver(kind, payload, meta) call on the coordinator, the
\* collaborators answering from the given sets.
CoordinatorDeliver(kind, payload, meta, startOuts, routeOuts, sendOuts) ==
  /\ \E startOut \in (IF StartAsked(payload) THEN startOuts ELSE {"ok"}) :
     \E ttsOut \in TtsChoices(kind, payload) :
     \E editOut \in (IF EditAsked(kind, payload, meta) THEN EditOutcomes ELSE {"ok"}) :
     \E routeOut \in RouteChoices(kind, meta, routeOuts) :
     \E sendOut \in (IF RoutesToOriginating THEN {"true"} ELSE sendOuts) :
     \E r \in {DeliverResult(kind, payload, meta, startOut, ttsOut, editOut, routeOut, sendOut)} :
           /\ accumulatedBlockText' = r.st.acc
           /\ blockCount' = r.st.bc
           /\ startedReplyLifecycle' = r.st.started
           /\ routedCounts' = r.st.counts
           /\ toolMessageByCallId' = r.st.map
           /\ onReplyStartCalls' = onReplyStartCalls + r.rec.invoked
           /\ last' = r.rec
           /\ blockLog' = IF kind = "block" /\ HasNonWhitespace(payload.hasText, payload.text)
                            THEN Append(blockLog, payload.text) ELSE blockLog
           /\ trueReturns' = IF r.rec.returned = "true"
                               THEN [trueReturns EXCEPT ![kind] = @ + 1] ELSE trueReturns
           /\ lifecycleRequested' = (lifecycleRequested \/ IsVisiblePayload(payload))
  /\ calls' = calls + 1
  /\ UNCHANGED <<shouldRouteToOriginating, originatingChannel, originatingTo>>

\* One startReplyLifecycle() call on the coordinator.
CoordinatorStart(startOuts) ==
  /\ \E startOut \in (IF startedReplyLifecycle THEN {"ok"} ELSE startOuts) :
       LET life == StartReplyLifecycleOnce(startedReplyLifecycle, startOut)
       IN  /\ startedReplyLifecycle' = life.started
           /\ onReplyStartCalls' = onReplyStartCalls + life.invoked
           /\ last' = [CallRecord("start", "final", EmptyPayload, NoMeta) EXCEPT
                         !.requested = TRUE, !.invoked = life.invoked,
                         !.returned = IF life.threw THEN "threw" ELSE "void"]
  /\ lifecycleRequested' = TRUE
  /\ calls' = calls + 1
  /\ UNCHANGED <<shouldRouteToOriginating, originatingChannel, originatingTo,
                 accumulatedBlockText, blockCount, routedCounts,
                 toolMessageByCallId, blockLog, trueReturns>>

\* deliver(kind, payload, meta) called on the coordinator from outside, for
\* every kind, payload and metadata.
DeliverWith(startOuts, routeOuts, sendOuts) ==
  /\ calls < MaxCalls
  /\ \E kind \in ReplyDispatchKind :
     \E payload \in PayloadsOf(kind), meta \in MetasOf(kind) :
       CoordinatorDeliver(kind, payload, meta, startOuts, routeOuts, sendOuts)
  /\ UNCHANGED << turnVars, parseVars, cacheVars, tasks, moreVars >>

\* startReplyLifecycle() called on the coordinator from outside.
StartReplyLifecycleWith(startOuts) ==
  /\ calls < MaxCalls
  /\ CoordinatorStart(startOuts)
  /\ UNCHANGED << turnVars, parseVars, cacheVars, tasks, moreVars >>

\* createAcpDispatchDeliveryCoordinator(params): the state after construction,
\* for each routing configuration.
Configs ==
  { <<TRUE, "telegram", "telegram:thread-1">>,
    <<TRUE, "", "telegram:thread-1">>,
    <<FALSE, "telegram", "telegram:thread-1">> }

CoordInit ==
  /\ \E c \in Configs :
       /\ shouldRouteToOriginating = c[1]
       /\ originatingChannel = c[2]
       /\ originatingTo = c[3]
  /\ startedReplyLifecycle = FALSE
  /\ accumulatedBlockText = <<>>
  /\ blockCount = 0
  /\ routedCounts = ZeroCounts
  /\ toolMessageByCallId = [id \in ToolCallIds |-> NoHandle]
  /\ onReplyStartCalls = 0
  /\ calls = 0
  /\ last = NoCall
  /\ blockLog = <<>>
  /\ trueReturns = ZeroCounts
  /\ lifecycleRequested = FALSE

\* The sinks of a turn.
Sinks == {"sendToolResult", "sendBlockReply", "sendFinalReply", "routeReply", "edit"}

NoResult == [returned |-> FALSE, counts |-> ZeroCounts]

\* The coordinator used on its own: no turn is dispatched.
NoTurn ==
  /\ prompt = <<>>
  /\ dispatchPolicyError = ""
  /\ agentPolicyError = ""
  /\ resolution = "none"
  /\ tagVisibility = [tool_call |-> FALSE, tool_call_update |-> FALSE, usage_update |-> FALSE]
  /\ pc = "no-turn"
  /\ runTurnCalls = 0
  /\ eventsSeen = 0
  /\ deliveries = ZeroCounts
  /\ sinkCalls = [s \in Sinks |-> 0]
  /\ result = NoResult
  /\ eventLog = <<>>
  /\ inFlight = {}
  /\ sinkLog = <<>>

\* ------------------------------------------- Slack thread participation

\* The (accountId, channelId, threadTs) triples the cache is called with:
\* each id is any string, the empty one and ones with a colon among them.
ThreadTriples ==
  { << <<"A">>, <<"C">>, <<"1">> >>,
    << <<"A">>, <<"C">>, <<"2">> >>,
    << <<"A">>, <<"D">>, <<"1">> >>,
    << <<"A", ":", "B">>, <<"C">>, <<"1">> >>,
    << <<"A">>, <<"B", ":", "C">>, <<"1">> >>,
    << <<>>, <<"C">>, <<"1">> >>,
    << <<"A">>, <<>>, <<"1">> >>,
    << <<"A">>, <<"C">>, <<>> >> }

\* `${accountId}:${channelId}:${threadTs}`
MakeKey(accountId, channelId, threadTs) ==
  accountId \o <<":">> \o channelId \o <<":">> \o threadTs

\* Map.prototype.has / get / delete / set on the entries in insertion order:
\* set keeps the position of a key that is already there.
MapHas(map, key) == \E i \in 1..Len(map) : map[i].key = key

MapGet(map, key) == map[CHOOSE i \in 1..Len(map) : map[i].key = key].timestamp

MapDelete(map, key) == SelectSeq(map, LAMBDA e : e.key # key)

MapSet(map, key, timestamp) ==
  IF MapHas(map, key)
    THEN [i \in 1..Len(map) |->
            IF map[i].key = key THEN [key |-> key, timestamp |-> timestamp] ELSE map[i]]
    ELSE Append(map, [key |-> key, timestamp |-> timestamp])

\* now - timestamp > TTL_MS
IsExpired(time, timestamp) == time - timestamp > TTL_MS

\* evictExpired(): every expired entry is deleted.
EvictExpired(map, time) == SelectSeq(map, LAMBDA e : ~IsExpired(time, e.timestamp))

EvictOldest_Keeps(map) == map

\* evictOldest(): the first key in insertion order is deleted.
EvictOldest(map) == IF map # <<>> THEN MapDelete(map, map[1].key) ELSE map

\* What a call on the cache is seen to do: for a has that returned true the
\* ids it was called with, and for a record that called evictOldest the map
\* it was called on and the key it deleted.
CacheCall(op, accountId, channelId, threadTs) ==
  [ op |-> op, accountId |-> accountId, channelId |-> channelId,
    threadTs |-> threadTs, returned |-> FALSE, evictedFrom |-> <<>>,
    evictedKey |-> <<>> ]

\* The recorded triples whose entry is among the given entries.
StillCached(triples, map) ==
  { ids \in triples : MapHas(map, MakeKey(ids[1], ids[2], ids[3])) }

\* The module as loaded: an empty map.
NoCache ==
  /\ threadParticipation = <<>>
  /\ now = 0
  /\ recorded = {}
  /\ cacheLast = CacheCall("none", <<>>, <<>>, <<>>)

\* ------------------------------------------------------ two coordinators

\* The state object createAcpDispatchDeliveryCoordinator builds for the
\* coordinator it returns.
FreshState ==
  [ started |-> FALSE,
    acc |-> <<>>,
    bc |-> 0,
    counts |-> ZeroCounts,
    map |-> [id \in ToolCallIds |-> NoHandle] ]

\* One coordinator only is in use.
NoPeer ==
  /\ active = "A"
  /\ peer = FreshState

\* ------------------------------------------------- the acpx runtime service

\* createAcpxRuntimeService(): runtime = null, lifecycleRevision = 0, no
\* setup task started and nothing logged.
ServiceCreated ==
  [ lifecycleRevision |-> 0,
    runtime |-> 0,
    setups |-> <<>>,
    stops |-> 0,
    log |-> <<>> ]

NoService == service = ServiceCreated

\* ------------------------------------------- the Slack socket-mode monitor

\* monitorSlackProvider before its reconnect loop: reconnectAttempts = 0.
MonitorCreated ==
  [ pc |-> "start",
    reconnectAttempts |-> 0,
    aborted |-> FALSE,
    failures |-> 0 ]

NoMonitor == monitor = [MonitorCreated EXCEPT !.pc = "no-monitor"]

NoMore == NoPeer /\ NoService /\ NoMonitor

\* No call of startReplyLifecycleOnce is under way.
NoTasks == tasks = <<>>

\* No line is being parsed.
NoLine ==
  /\ line = <<>>
  /\ projected = NotParsed

Init == CoordInit /\ NoTurn /\ NoLine /\ NoCache /\ NoTasks /\ NoMore

\* The sinks fail in every way they can (routeReply answers ok: false or
\* rejects, the edit action rejects, a dispatcher method answers false or
\* throws); onReplyStart resolves.
Deliver == DeliverWith({"ok"}, RouteOutcomes, SendOutcomes)

StartReplyLifecycle == StartReplyLifecycleWith({"ok"})

Next == Deliver \/ StartReplyLifecycle

Spec == Init /\ [][Next]_vars

\* ------------------------------------------- the turn dispatch controller

\* ctx.BodyForAgent
Prompts == { <<>>, <<" ", " ", " ">>, <<"t">>, <<" ", "t", NL>> }

DispatchPolicyCodes == {"", "ACP_DISPATCH_DISABLED"}

AgentPolicyCodes == {"", "ACP_AGENT_NOT_ALLOWED"}

\* resolveSession(...).kind
Resolutions == {"ready", "stale"}

\* The code of the error a resolution that is not ready is surfaced with.
ResolutionErrorCode == "ACP_SESSION_INIT_FAILED"

\* The code of the error an error event of the runtime is surfaced with.
TurnErrorCode == "ACP_TURN_FAILED"

\* Per-tag visibility: the defaults (tool and usage updates hidden), tool
\* tags made visible, every tag visible.
VisibilityConfigs ==
  { [tool_call |-> FALSE, tool_call_update |-> FALSE, usage_update |-> FALSE],
    [tool_call |-> TRUE, tool_call_update |-> TRUE, usage_update |-> FALSE],
    [tool_call |-> TRUE, tool_call_update |-> TRUE, usage_update |-> TRUE] }

Event(type, stream, tag, text, toolCallId) ==
  [type |-> type, stream |-> stream, tag |-> tag, text |-> text, toolCallId |-> toolCallId]

\* The events a runtime hands to onEvent.
Events ==
  { Event("text_delta", "output", "agent_message_chunk", <<"h">>, <<>>),
    Event("text_delta", "output", "agent_message_chunk", <<>>, <<>>),
    Event("text_delta", "thought", "agent_thought_chunk", <<"h">>, <<>>),
    Event("tool_call", "", "tool_call", <<"r", "(in_progress)">>, <<"c">>),
    Event("tool_call", "", "tool_call_update", <<"r", "(completed)">>, <<"c">>),
    Event("status", "", "usage_update", <<"usage updated: 1/100">>, <<>>),
    Event("done", "", "", <<>>, <<>>),
    Event("error", "", "", <<"boom">>, <<>>) }

PromptIsBlank_Untrimmed(text) == Len(text) = 0

\* The prompt is empty after trimming.
PromptIsBlank(text) == Len(Trim(text)) = 0

\* The text of the final reply an error is surfaced with: it embeds the code
\* and the message.
FormatErrorText(code, message) == <<code, ":", " ">> \o message

RefusalCode_IgnoresResolution ==
  IF dispatchPolicyError # "" THEN dispatchPolicyError
  ELSE IF agentPolicyError # "" THEN agentPolicyError
  ELSE ""

\* The error that keeps the runtime from being invoked, "" when there is
\* none: a dispatch policy error, an agent policy error, or a session
\* resolution that is not ready.
RefusalCode ==
  IF dispatchPolicyError # "" THEN dispatchPolicyError
  ELSE IF agentPolicyError # "" THEN agentPolicyError
  ELSE IF resolution # "ready" THEN ResolutionErrorCode
  ELSE ""

\* The sink calls of the coordinator call just made, added to the turn's.
CountSinkCalls(counts, rec) ==
  [s \in Sinks |->
     counts[s] + (IF s = "edit" THEN rec.edits
                 ELSE IF s = "routeReply" THEN rec.routes
                 ELSE IF s = rec.method THEN 1 ELSE 0)]

\* What routeReply answers during a turn: it resolves, with one message id
\* when it gives one.
TurnRouteOutcomes == {r \in RouteOutcomes : ~r.threw /\ r.messageId # "m2"}

\* One awaited delivery.deliver() call of the controller, made for the
\* event of the given index (0: for no event).  The sinks answer within
\* their interfaces: routeReply resolves, a dispatcher method returns a
\* boolean.
TurnDeliver(index, kind, payload, meta) ==
  /\ CoordinatorDeliver(kind, payload, meta, {"ok"}, TurnRouteOutcomes, {"true", "false"})
  /\ deliveries' = [deliveries EXCEPT ![kind] = @ + 1]
  /\ sinkCalls' = CountSinkCalls(sinkCalls, last')
  /\ sinkLog' = Append(sinkLog, [index |-> index, rec |-> last'])

\* dispatcher.getQueuedCounts(): the sends the dispatcher accepted, per kind.
QueuedCounts(log) ==
  [k \in ReplyDispatchKind |->
     Cardinality({ i \in 1..Len(log) :
                     /\ log[i].rec.method = DirectMethod(k)
                     /\ log[i].rec.sendOutcome = "true" })]

ApplyRoutedCounts_Twice(counts, routed) ==
  [k \in ReplyDispatchKind |-> counts[k] + routed[k] + routed[k]]

\* applyRoutedCounts(counts): counts.tool/block/final += state.routedCounts.*
ApplyRoutedCounts(counts, routed) ==
  [k \in ReplyDispatchKind |-> counts[k] + routed[k]]

\* The turn result: the coordinator's routed counts merged into the counts.
TurnResult(counts) == [returned |-> TRUE, counts |-> counts]

turnInputs ==
  << prompt, dispatchPolicyError, agentPolicyError, resolution, tagVisibility >>

\* tryDispatchAcpReply, empty prompt: nothing is done and no result object
\* is returned.
SkipEmptyPrompt ==
  /\ pc = "policy-check"
  /\ PromptIsBlank(prompt)
  /\ pc' = "skipped-empty"
  /\ UNCHANGED << coordVars, turnInputs, runTurnCalls, eventsSeen, deliveries,
                  sinkCalls, result, eventLog, inFlight, sinkLog, parseVars, cacheVars, tasks, moreVars >>

\* tryDispatchAcpReply, policy error or session not ready: one final reply
\* that embeds the error code; the runtime is not invoked.
RefuseTurn ==
  /\ pc = "policy-check"
  /\ ~PromptIsBlank(prompt)
  /\ RefusalCode # ""
  /\ TurnDeliver(0, "final", TextPayload(FormatErrorText(RefusalCode, <<"refused">>)), NoMeta)
  /\ pc' = "error"
  /\ result' = TurnResult(ApplyRoutedCounts(QueuedCounts(sinkLog'), routedCounts'))
  /\ UNCHANGED << turnInputs, runTurnCalls, eventsSeen, eventLog, inFlight, parseVars, cacheVars, tasks, moreVars >>

LifecycleStartsWithDelivery == FALSE

\* The reply lifecycle is started when the turn starts, before any event
\* ("starts reply lifecycle when ACP turn starts, including hidden-only turns").
LifecycleStartsWithTurn == TRUE

\* tryDispatchAcpReply, gates passed: the reply lifecycle is started and the
\* runtime is invoked with the event callback.
StartTurn ==
  /\ pc = "policy-check"
  /\ ~PromptIsBlank(prompt)
  /\ RefusalCode = ""
  /\ IF LifecycleStartsWithTurn THEN CoordinatorStart({"ok"}) ELSE UNCHANGED coordVars
  /\ runTurnCalls' = runTurnCalls + 1
  /\ pc' = "running"
  /\ UNCHANGED << turnInputs, eventsSeen, deliveries, sinkCalls, result,
                  eventLog, inFlight, sinkLog, parseVars, cacheVars, tasks, moreVars >>

DeliveryKind_ThoughtsAsBlocks(e) ==
  IF e.type = "text_delta"
    THEN (IF Len(e.text) > 0 THEN "block" ELSE "none")
  ELSE IF e.type \in {"tool_call", "status"}
    THEN (IF tagVisibility[e.tag] THEN "tool" ELSE "none")
  ELSE "none"

\* Whether an event is projected to a delivery, and of which kind.
DeliveryKind(e) ==
  IF e.type = "text_delta"
    THEN (IF e.stream = "output" /\ Len(e.text) > 0 THEN "block" ELSE "none")
  ELSE IF e.type = "tool_call"
    THEN (IF tagVisibility[e.tag] THEN "tool" ELSE "none")
  ELSE IF e.type = "status"
    THEN (IF tagVisibility[e.tag] THEN "tool" ELSE "none")
  ELSE "none"

DeliveryMeta_AlwaysAllowsEdit(e) ==
  IF e.type = "tool_call" THEN Meta(e.toolCallId, TRUE) ELSE NoMeta

\* The metadata of a tool delivery: edits are allowed for tool_call_update.
DeliveryMeta(e) ==
  IF e.type = "tool_call" THEN Meta(e.toolCallId, e.tag = "tool_call_update") ELSE NoMeta

AcceptsEvents_AfterDone(state) == state \in {"running", "done"}

\* Events are processed while the turn is running: done and error are terminal.
AcceptsEvents(state) == state = "running"

OnEventIsNotAwaited == FALSE

\* The runtime awaits onEvent, and onEvent awaits deliver(): the next event
\* is handed over when the delivery of the previous one has resolved.
OnEventIsAwaited == TRUE

ReadyForEvent == OnEventIsAwaited => inFlight = {}

StateAfterDelivery_AbortsOnFailure(returned) ==
  IF returned = "false" THEN "error" ELSE "running"

\* The turn goes on whatever deliver() returned.
StateAfterDelivery(returned) == "running"

ErrorReplyKind_Block == "block"

\* The kind an error of the runtime is delivered as.
ErrorReplyKind == "final"

\* A delivery the controller has started: deliver() was called for the event
\* of the given index and has not resolved yet.
Ticket(index, kind, payload, meta) ==
  [index |-> index, kind |-> kind, payload |-> payload, meta |-> meta]

\* onEvent for an event that is delivered: it is classified and deliver()
\* is called.
ClassifyEvent ==
  /\ AcceptsEvents(pc) /\ eventsSeen < MaxEvents /\ ReadyForEvent
  /\ \E e \in Events :
       /\ DeliveryKind(e) # "none"
       /\ eventLog' = Append(eventLog, e)
       /\ inFlight' = inFlight \cup
            {Ticket(eventsSeen + 1, DeliveryKind(e), TextPayload(e.text), DeliveryMeta(e))}
  /\ eventsSeen' = eventsSeen + 1
  /\ UNCHANGED << coordVars, turnInputs, pc, runTurnCalls, deliveries, sinkCalls,
                  result, sinkLog, parseVars, cacheVars, tasks, moreVars >>

\* The deliver() call made for an event runs and resolves; onEvent returns.
DeliverEvent ==
  /\ \E t \in inFlight :
       /\ TurnDeliver(t.index, t.kind, t.payload, t.meta)
       /\ inFlight' = inFlight \ {t}
  /\ pc' = IF pc = "running" THEN StateAfterDelivery(last'.returned) ELSE pc
  /\ UNCHANGED << turnInputs, runTurnCalls, eventsSeen, result, eventLog, parseVars, cacheVars, tasks, moreVars >>

\* onEvent for an event that is hidden or suppressed (a thought, an empty
\* text delta, a tag that is not visible).
HiddenEvent ==
  /\ AcceptsEvents(pc) /\ eventsSeen < MaxEvents /\ ReadyForEvent
  /\ \E e \in Events :
       /\ e.type \notin {"done", "error"} /\ DeliveryKind(e) = "none"
       /\ eventLog' = Append(eventLog, e)
  /\ eventsSeen' = eventsSeen + 1
  /\ UNCHANGED << coordVars, turnInputs, pc, runTurnCalls, deliveries, sinkCalls,
                  result, inFlight, sinkLog, parseVars, cacheVars, tasks, moreVars >>

\* onEvent for done: terminal.
DoneEvent ==
  /\ AcceptsEvents(pc) /\ eventsSeen < MaxEvents /\ ReadyForEvent
  /\ \E e \in Events : e.type = "done" /\ eventLog' = Append(eventLog, e)
  /\ pc' = "done"
  /\ eventsSeen' = eventsSeen + 1
  /\ UNCHANGED << coordVars, turnInputs, runTurnCalls, deliveries, sinkCalls,
                  result, inFlight, sinkLog, parseVars, cacheVars, tasks, moreVars >>

\* onEvent for error: a final reply that embeds the error, then terminal.
ErrorEvent ==
  /\ AcceptsEvents(pc) /\ eventsSeen < MaxEvents /\ ReadyForEvent
  /\ \E e \in Events :
       /\ e.type = "error"
       /\ eventLog' = Append(eventLog, e)
       /\ TurnDeliver(eventsSeen + 1, ErrorReplyKind,
                      TextPayload(FormatErrorText(TurnErrorCode, e.text)), NoMeta)
  /\ pc' = "error"
  /\ eventsSeen' = eventsSeen + 1
  /\ UNCHANGED << turnInputs, runTurnCalls, result, inFlight, parseVars, cacheVars, tasks, moreVars >>

\* onEvent called by the runtime after done or error: not processed.
LateEvent ==
  /\ ~AcceptsEvents(pc) /\ pc \in {"done", "error"}
  /\ runTurnCalls > 0 /\ ~result.returned
  /\ eventsSeen < MaxEvents /\ ReadyForEvent
  /\ \E e \in Events : eventLog' = Append(eventLog, e)
  /\ eventsSeen' = eventsSeen + 1
  /\ UNCHANGED << coordVars, turnInputs, pc, runTurnCalls, deliveries, sinkCalls,
                  result, inFlight, sinkLog, parseVars, cacheVars, tasks, moreVars >>

\* runTurn resolves: the counts are aggregated into the turn result.
RunTurnResolves ==
  /\ pc \in {"running", "done", "error"} /\ runTurnCalls > 0 /\ ~result.returned
  /\ inFlight = {}
  /\ result' = TurnResult(ApplyRoutedCounts(QueuedCounts(sinkLog), routedCounts))
  /\ pc' = IF pc = "running" THEN "done" ELSE pc
  /\ UNCHANGED << coordVars, turnInputs, runTurnCalls, eventsSeen, deliveries,
                  sinkCalls, eventLog, inFlight, sinkLog, parseVars, cacheVars, tasks, moreVars >>

\* A turn about to be dispatched, on a fresh coordinator that routes to the
\* originating channel or does not.
DispatchInit ==
  /\ CoordInit /\ originatingChannel # ""
  /\ NoLine /\ NoCache /\ NoTasks /\ NoMore
  /\ prompt \in Prompts
  /\ dispatchPolicyError \in DispatchPolicyCodes
  /\ agentPolicyError \in AgentPolicyCodes
  /\ resolution \in Resolutions
  /\ tagVisibility \in VisibilityConfigs
  /\ pc = "policy-check"
  /\ runTurnCalls = 0
  /\ eventsSeen = 0
  /\ deliveries = ZeroCounts
  /\ sinkCalls = [s \in Sinks |-> 0]
  /\ result = NoResult
  /\ eventLog = <<>>
  /\ inFlight = {}
  /\ sinkLog = <<>>

DispatchNext ==
  \/ SkipEmptyPrompt
  \/ RefuseTurn
  \/ StartTurn
  \/ ClassifyEvent
  \/ DeliverEvent
  \/ HiddenEvent
  \/ DoneEvent
  \/ ErrorEvent
  \/ LateEvent
  \/ RunTurnResolves

SpecDispatch == DispatchInit /\ [][DispatchNext]_vars

\* ------------------------------------ the event projector, line by line

\* Records a backend writes, one per line.
SampleRecords ==
  LET S(text) == JStr(<<text>>)
      Update(keys, items) ==
        JObj(<<<<"jsonrpc">>, <<"method">>, <<"params">>>>,
             <<S("2.0"), S("session/update"),
               JObj(<<<<"sessionId">>, <<"update">>>>, <<S("s1"), JObj(keys, items)>>)>>)
  IN  { Update(<<<<"sessionUpdate">>, <<"content">>>>,
               <<S("agent_message_chunk"),
                 JObj(<<<<"type">>, <<"text">>>>, <<S("text"), S("hello")>>)>>),
        Update(<<<<"sessionUpdate">>, <<"used">>, <<"size">>>>,
               <<S("usage_update"), JNum(12), JNum(500)>>),
        Update(<<<<"sessionUpdate">>, <<"toolCallId">>, <<"status">>>>,
               <<S("tool_call_update"), S("call_ABC123"), S("in_progress")>>),
        Update(<<<<"sessionUpdate">>, <<"entries">>>>, <<S("plan"), JArr(<<>>)>>),
        Update(<<<<"sessionUpdate">>, <<"availableCommands">>>>,
               <<S("available_commands_update"), JArr(<<S("a"), S("b")>>)>>),
        JObj(<<<<"type">>, <<"content">>>>, <<S("text"), S("alpha")>>),
        JObj(<<<<"type">>, <<"content">>, <<"tag">>>>,
             <<S("thought"), S("alpha"), S("agent_thought_chunk")>>),
        JObj(<<<<"type">>, <<"content">>>>, <<S("text"), JStr(<<>>)>>),
        JObj(<<<<"type">>, <<"stopReason">>>>, <<S("done"), S("end_turn")>>),
        JObj(<<<<"type">>, <<"message">>, <<"code">>, <<"retryable">>>>,
             <<S("error"), JStr(<<" ", "boom">>), S("E1"),
               JValue("bool", TRUE, 0, <<>>, <<>>, <<>>)>>),
        JObj(<<<<"type">>>>, <<S("error")>>),
        JObj(<<<<"type">>, <<"title">>, <<"toolCallId">>>>,
             <<S("tool_call"), S("Run command"), S("call-1")>>),
        JObj(<<<<"sessionUpdate">>, <<"used">>>>, <<S("usage_update"), S("12")>>),
        JObj(<<<<"sessionUpdate">>, <<"text">>, <<"content">>>>,
             <<S("agent_thought_chunk"), S("top"),
               JObj(<<<<"type">>>>, <<S("image")>>)>>),
        JObj(<<<<"sessionUpdate">>, <<"id">>, <<"value">>>>,
             <<S("config_option_update"), S("model"), S("fast")>>),
        JObj(<<<<"sessionUpdate">>>>, <<S("current_mode_update")>>),
        JObj(<<<<"sessionUpdate">>, <<"summary">>>>, <<S("session_info_update"), S("renamed")>>),
        JObj(<<<<"type">>, <<"status">>>>, <<S("client_operation"), S("ok")>>),
        JObj(<<<<"type">>, <<"update">>>>, <<S("update"), JStr(<<" ", "x", " ">>)>>),
        JObj(<<<<"type">>>>, <<S("something_new")>>),
        JObj(<<>>, <<>>),
        JObj(<<<<"sessionUpdate">>, <<"used">>, <<"size">>>>,
             <<S("usage_update"), JNum(0), JNum(500)>>),
        JObj(<<<<"sessionUpdate">>, <<"size">>>>, <<S("usage_update"), JNum(12)>>),
        JObj(<<<<"sessionUpdate">>, <<"used">>, <<"size">>>>,
             <<S("usage_update"), JValue("null", FALSE, 0, <<>>, <<>>, <<>>), JNum(1)>>),
        JObj(<<<<"sessionUpdate">>, <<"value">>>>, <<S("config_option_update"), S("fast")>>),
        JObj(<<<<"sessionUpdate">>, <<"id">>>>, <<S("config_option_update"), S("model")>>),
        JObj(<<<<"sessionUpdate">>, <<"modeId">>>>, <<S("current_mode_update"), S("plan")>>),
        JObj(<<<<"sessionUpdate">>>>, <<S("session_info_update")>>),
        JObj(<<<<"sessionUpdate">>, <<"availableCommands">>>>,
             <<S("available_commands_update"), JArr(<<>>)>>),
        JObj(<<<<"sessionUpdate">>, <<"entries">>>>,
             <<S("plan"), JArr(<<S("x"), JObj(<<<<"content">>>>, <<S("step")>>)>>)>>),
        JObj(<<<<"type">>, <<"message">>, <<"code">>, <<"retryable">>>>,
             <<S("error"), JNum(12), JNum(12), S("true")>>),
        JObj(<<<<"type">>, <<"message">>, <<"retryable">>>>,
             <<S("error"), JStr(<<" ">>), JValue("bool", FALSE, 0, <<>>, <<>>, <<>>)>>),
        JObj(<<<<"type">>, <<"content">>, <<"method">>, <<"params">>>>,
             <<S("text"), S("outer"), S("session/update"),
               JObj(<<<<"update">>>>,
                    <<JObj(<<<<"sessionUpdate">>, <<"text">>>>,
                           <<S("agent_message_chunk"), S("inner")>>)>>)>>),
        JObj(<<<<"method">>, <<"params">>, <<"sessionUpdate">>, <<"used">>>>,
             <<S("session/update"), JObj(<<<<"update">>>>, <<S("x")>>),
               S("usage_update"), JNum(1)>>),
        JObj(<<<<"sessionUpdate">>, <<"type">>, <<"content">>, <<"text">>>>,
             <<S("agent_message_chunk"), S("text"), S("c"), S("t")>>),
        JObj(<<<<"type">>, <<"tag">>>>, <<S("usage_update"), S("plan")>>),
        JObj(<<<<"type">>, <<"tag">>, <<"method">>>>,
             <<S("client_operation"), S("plan"), S("fs/read")>>),
        JObj(<<<<"type">>, <<"tag">>, <<"text">>>>,
             <<S("agent_message_chunk"), S("plan"), S("t")>>),
        JObj(<<<<"sessionUpdate">>, <<"text">>, <<"content">>>>,
             <<S("agent_message_chunk"), S("top"),
               JObj(<<<<"type">>, <<"text">>>>, <<S("text"), JStr(<<>>)>>)>>),
        JObj(<<<<"sessionUpdate">>>>, <<S("agent_message_chunk")>>),
        JObj(<<<<"sessionUpdate">>, <<"text">>>>, <<S("agent_thought_chunk"), JStr(<<" ">>)>>),
        JObj(<<<<"type">>>>, <<S("thought")>>),
        JObj(<<<<"type">>, <<"content">>>>, <<S("text"), JNum(12)>>) }

\* What a line holds between its leading and trailing whitespace: text
\* that is not JSON, JSON values that are not objects, and records.
LineBodies ==
  { <<"x">>, <<"x", " ", "y">>, <<"{", "x">>, <<"[", "1">>, <<Quote, "x">>,
    <<"1", " ", "1">>, <<"{", Quote, "a", Quote, "}">>, <<"{", "}", "}">>,
    <<"12">>, <<"1e999">>, <<"null">>, <<"true">>, <<Quote, "x", Quote>>,
    <<"[", "]">>, <<"[", "1", ",", " ", "12", "]">>, <<"{", " ", "}">>,
    <<"{", Quote, "sessionUpdate", Quote, ":", Quote, "usage_update", Quote, ",",
      Quote, "used", Quote, ":", "1e999", ",", Quote, "size", Quote, ":", "12", "}">> }
  \cup { JsonStringify(record) : record \in SampleRecords }

\* The lines handed to parsePromptEventLine.
Lines ==
  { <<>>, <<" ">>, <<" ", NL>> }
  \cup { lead \o body \o trail :
           lead \in {<<>>, <<" ">>}, body \in LineBodies, trail \in {<<>>, <<" ", NL>>} }

\* A line is about to be parsed; no coordinator and no turn are involved.
ParseInit ==
  /\ CoordInit /\ ~shouldRouteToOriginating
  /\ NoTurn /\ NoCache /\ NoTasks /\ NoMore
  /\ line \in Lines
  /\ projected = NotParsed

\* parsePromptEventLine(line) is called.
ParseLine ==
  /\ projected = NotParsed
  /\ projected' = ParsePromptEventLine(line)
  /\ UNCHANGED << coordVars, turnVars, line, cacheVars, tasks, moreVars >>

ParseNext == ParseLine

SpecParse == ParseInit /\ [][ParseNext]_vars

\* -------------------------------------- the Slack thread participation cache

\* recordSlackThreadParticipation(accountId, channelId, threadTs)
RecordSlackThreadParticipation(accountId, channelId, threadTs) ==
  LET afterExpired == IF Len(threadParticipation) >= MAX_ENTRIES
                        THEN EvictExpired(threadParticipation, now)
                        ELSE threadParticipation
      full == Len(afterExpired) >= MAX_ENTRIES
      afterOldest == IF full THEN EvictOldest(afterExpired) ELSE afterExpired
      call == CacheCall("record", <<>>, <<>>, <<>>)
  IN  /\ IF accountId = <<>> \/ channelId = <<>> \/ threadTs = <<>>
           THEN /\ cacheLast' = call
                /\ UNCHANGED << threadParticipation, recorded >>
           ELSE /\ threadParticipation' =
                     MapSet(afterOldest, MakeKey(accountId, channelId, threadTs), now)
                /\ recorded' = StillCached(recorded, afterOldest)
                                  \cup { <<accountId, channelId, threadTs>> }
                /\ cacheLast' =
                     [call EXCEPT
                        !.evictedFrom = IF full THEN afterExpired ELSE <<>>,
                        !.evictedKey = IF full /\ Len(afterOldest) < Len(afterExpired)
                                         THEN afterExpired[1].key ELSE <<>>]
      /\ UNCHANGED << coordVars, turnVars, parseVars, now, tasks, moreVars >>

\* hasSlackThreadParticipation(accountId, channelId, threadTs)
HasSlackThreadParticipation(accountId, channelId, threadTs) ==
  LET key == MakeKey(accountId, channelId, threadTs)
      call == CacheCall("has", <<>>, <<>>, <<>>)
  IN  /\ IF accountId = <<>> \/ channelId = <<>> \/ threadTs = <<>>
           THEN cacheLast' = call /\ UNCHANGED threadParticipation
         ELSE IF ~MapHas(threadParticipation, key)
           THEN cacheLast' = call /\ UNCHANGED threadParticipation
         ELSE IF IsExpired(now, MapGet(threadParticipation, key))
           THEN /\ threadParticipation' = MapDelete(threadParticipation, key)
                /\ cacheLast' = call
         ELSE /\ cacheLast' = [CacheCall("has", accountId, channelId, threadTs)
                                 EXCEPT !.returned = TRUE]
              /\ UNCHANGED threadParticipation
      /\ recorded' = StillCached(recorded, threadParticipation')
      /\ UNCHANGED << coordVars, turnVars, parseVars, now, tasks, moreVars >>

\* clearSlackThreadParticipationCache()
ClearSlackThreadParticipationCache ==
  /\ threadParticipation' = <<>>
  /\ recorded' = {}
  /\ cacheLast' = CacheCall("clear", <<>>, <<>>, <<>>)
  /\ UNCHANGED << coordVars, turnVars, parseVars, now, tasks, moreVars >>

\* Time passes between two calls.
ClockAdvances ==
  /\ now < MaxNow
  /\ now' = now + 1
  /\ UNCHANGED << coordVars, turnVars, parseVars, threadParticipation, recorded,
                  cacheLast, tasks, moreVars >>

CacheInit ==
  /\ CoordInit /\ ~shouldRouteToOriginating
  /\ NoTurn /\ NoLine /\ NoCache /\ NoTasks /\ NoMore

CacheNext ==
  \/ \E ids \in ThreadTriples : RecordSlackThreadParticipation(ids[1], ids[2], ids[3])
  \/ \E ids \in ThreadTriples : HasSlackThreadParticipation(ids[1], ids[2], ids[3])
  \/ ClearSlackThreadParticipationCache
  \/ ClockAdvances

SpecCache == CacheInit /\ [][CacheNext]_vars

\* ------------------------------------- overlapping starts of the lifecycle

\* The callers of startReplyLifecycleOnce: startReplyLifecycle() itself and
\* a deliver() of a payload with visible content.
LifecycleCallers == {"startReplyLifecycle", "deliver"}

\* A call under way: who made it, where its startReplyLifecycleOnce stands,
\* whether it was the one to invoke onReplyStart, and, once a deliver() has
\* gone on to the TTS transform and its sink, where its
\* startReplyLifecycleOnce stood at that moment ("no" before); `late` tells
\* that the call began after an onReplyStart promise had rejected.
Task(via, at) ==
  [via |-> via, pc |-> at, fired |-> FALSE, reached |-> "no", late |-> FALSE]

\* The onReplyStart promise of some call has rejected.
SomeStartRejected == \E k \in 1..Len(tasks) : tasks[k].pc = "rejected"

LatchSetAfterAwait == FALSE

\* state.startedReplyLifecycle = true comes before the await of onReplyStart,
\* in the same synchronous run as the check of the latch.
LatchSetBeforeAwait == TRUE

LatchResetOnRejection == FALSE

\* startReplyLifecycleOnce has no try/catch and no other assignment of
\* state.startedReplyLifecycle: a rejection of onReplyStart leaves it true.
LatchKeptOnRejection == TRUE

\* startReplyLifecycleOnce up to its await: the latch is checked, and when it
\* is not set it is set and onReplyStart is invoked, its promise pending.
EnterStartReplyLifecycleOnce(i, via) ==
  /\ tasks[i].pc = "idle"
  /\ IF startedReplyLifecycle
       THEN /\ tasks' = [tasks EXCEPT ![i] =
                           [Task(via, "returned") EXCEPT !.late = SomeStartRejected]]
            /\ UNCHANGED << startedReplyLifecycle, onReplyStartCalls >>
       ELSE /\ startedReplyLifecycle' = LatchSetBeforeAwait
            /\ onReplyStartCalls' = onReplyStartCalls + 1
            /\ tasks' = [tasks EXCEPT ![i] =
                           [Task(via, "pending") EXCEPT !.fired = TRUE,
                                                        !.late = SomeStartRejected]]
  /\ UNCHANGED << shouldRouteToOriginating, originatingChannel, originatingTo,
                  accumulatedBlockText, blockCount, routedCounts,
                  toolMessageByCallId, calls, last, blockLog, trueReturns,
                  lifecycleRequested, turnVars, parseVars, cacheVars, moreVars >>

\* The promise of onReplyStart settles and startReplyLifecycleOnce resumes
\* after its await.
OnReplyStartSettles(i, outcome) ==
  /\ tasks[i].pc = "pending"
  /\ tasks' = [tasks EXCEPT ![i].pc = IF outcome = "throw" THEN "rejected" ELSE "resolved"]
  /\ startedReplyLifecycle' =
       IF outcome = "throw" /\ ~LatchKeptOnRejection THEN FALSE
       ELSE (startedReplyLifecycle \/ ~LatchSetBeforeAwait)
  /\ UNCHANGED << shouldRouteToOriginating, originatingChannel, originatingTo,
                  accumulatedBlockText, blockCount, routedCounts,
                  toolMessageByCallId, onReplyStartCalls, calls, last, blockLog,
                  trueReturns, lifecycleRequested, turnVars, parseVars, cacheVars, moreVars >>

OnReplyStartNotAwaited == FALSE

\* `await startReplyLifecycleOnce()` in deliver(), and `await
\* params.onReplyStart?.()` inside it: the statements after it run when the
\* promise has resolved, and not at all when it rejected.
OnReplyStartIsAwaited == TRUE

\* Where startReplyLifecycleOnce must stand for deliver() to go on.
PastLifecycle ==
  {"returned", "resolved"} \cup (IF OnReplyStartIsAwaited THEN {} ELSE {"pending"})

\* A deliver() of visible content goes on after startReplyLifecycleOnce: the
\* TTS transform, then the edit action, routeReply or the dispatcher send.
DeliverGoesOnToSinks(i) ==
  /\ tasks[i].via = "deliver"
  /\ tasks[i].reached = "no"
  /\ tasks[i].pc \in PastLifecycle
  /\ tasks' = [tasks EXCEPT ![i].reached = tasks[i].pc]
  /\ UNCHANGED << coordVars, turnVars, parseVars, cacheVars, moreVars >>

OverlapInit ==
  /\ CoordInit /\ NoTurn /\ NoLine /\ NoCache /\ NoMore
  /\ tasks = [i \in 1..MaxTasks |-> Task("none", "idle")]

OverlapNext ==
  \/ \E i \in 1..MaxTasks, via \in LifecycleCallers : EnterStartReplyLifecycleOnce(i, via)
  \/ \E i \in 1..MaxTasks, outcome \in CallbackOutcomes : OnReplyStartSettles(i, outcome)
  \/ \E i \in 1..MaxTasks : DeliverGoesOnToSinks(i)

SpecOverlap == OverlapInit /\ [][OverlapNext]_vars

\* ------------------------------------------- two coordinators side by side

\* Two coordinators built by two calls of createAcpDispatchDeliveryCoordinator
\* with the same parameters.  The coordinator variables hold the state object
\* of the coordinator named by `active`, `peer` holds the other one's.

StateIsShared == FALSE

\* `const state = {...}` is a local of createAcpDispatchDeliveryCoordinator:
\* every call of the factory builds a state object of its own, and the
\* closures of deliver / startReplyLifecycle read and write that one only.
StateIsPerCoordinator == TRUE

\* The state object of the active coordinator.
CoordinatorState ==
  [ started |-> startedReplyLifecycle,
    acc |-> accumulatedBlockText,
    bc |-> blockCount,
    counts |-> routedCounts,
    map |-> toolMessageByCallId ]

OtherCoordinator(c) == IF c = "A" THEN "B" ELSE "A"

\* routeReply answers the id of the message it sent: a message sent for
\* coordinator A is "m1", one sent for coordinator B is "m2".
MessageIdSentFor(c) == IF c = "A" THEN "m1" ELSE "m2"

PairRouteOutcomes ==
  { RouteResult(FALSE, TRUE, m) : m \in {MessageIdSentFor(active), NoMessageId} }

PairMetas(kind) ==
  IF kind = "tool" THEN {Meta(<<"c">>, FALSE), Meta(<<"c">>, TRUE)} ELSE {NoMeta}

\* What a call on the active coordinator does to the other one's state
\* object: nothing, the two being distinct objects.
PeerAfterCall ==
  peer' = IF StateIsPerCoordinator THEN peer
          ELSE [ started |-> startedReplyLifecycle',
                 acc |-> accumulatedBlockText',
                 bc |-> blockCount',
                 counts |-> routedCounts',
                 map |-> toolMessageByCallId' ]

\* deliver(kind, payload, meta) on the active coordinator.
PairDeliver ==
  /\ calls < MaxCalls
  /\ \E kind \in {"tool", "block"} : \E meta \in PairMetas(kind) :
       CoordinatorDeliver(kind, TextPayload(<<"a">>), meta, {"ok"}, PairRouteOutcomes, {"true"})
  /\ PeerAfterCall
  /\ UNCHANGED << active, turnVars, parseVars, cacheVars, tasks, service, monitor >>

\* startReplyLifecycle() on the active coordinator.
PairStartReplyLifecycle ==
  /\ calls < MaxCalls
  /\ CoordinatorStart({"ok"})
  /\ PeerAfterCall
  /\ UNCHANGED << active, turnVars, parseVars, cacheVars, tasks, service, monitor >>

\* The next call goes to the other coordinator.
SwitchCoordinator ==
  /\ active' = OtherCoordinator(active)
  /\ peer' = CoordinatorState
  /\ startedReplyLifecycle' = peer.started
  /\ accumulatedBlockText' = peer.acc
  /\ blockCount' = peer.bc
  /\ routedCounts' = peer.counts
  /\ toolMessageByCallId' = peer.map
  /\ UNCHANGED << shouldRouteToOriginating, originatingChannel, originatingTo,
                  onReplyStartCalls, calls, last, blockLog, trueReturns,
                  lifecycleRequested, turnVars, parseVars, cacheVars, tasks,
                  service, monitor >>

PairInit ==
  /\ CoordInit /\ NoTurn /\ NoLine /\ NoCache /\ NoTasks
  /\ NoPeer /\ NoService /\ NoMonitor

PairNext == PairDeliver \/ PairStartReplyLifecycle \/ SwitchCoordinator

SpecPair == PairInit /\ [][PairNext]_vars

\* ------------------------------------------------ the acpx runtime service

\* createAcpxRuntimeService(): `runtime` and `lifecycleRevision` are shared
\* by start(), stop() and every background setup task start() has launched.
\* A runtime instance is named by the revision of the start() that built it,
\* 0 is null.  service.setups[i] is the setup task of the i-th start(): the
\* currentRevision it captured and the await it stands at.  service.log lists
\* what the tasks did that can be seen from outside, with the task that did
\* it and whether lifecycleRevision had moved on from the task's revision.

SetupTask(revision, at) == [revision |-> revision, pc |-> at]

Observed(i, what) ==
  [ task |-> i,
    what |-> what,
    stale |-> service.setups[i].revision # service.lifecycleRevision ]

LifecycleCalls == Len(service.setups) + service.stops

\* start(ctx): the runtime is built and registered, lifecycleRevision is
\* incremented and captured, and the setup task runs up to `await ensureAcpx`.
ServiceStart ==
  /\ LifecycleCalls < MaxLifecycleCalls
  /\ service' = [service EXCEPT
                   !.lifecycleRevision = @ + 1,
                   !.runtime = service.lifecycleRevision + 1,
                   !.setups = Append(@, SetupTask(service.lifecycleRevision + 1, "ensureAcpx"))]
  /\ UNCHANGED << coordVars, turnVars, parseVars, cacheVars, tasks, pairVars, monitor >>

\* stop(ctx): lifecycleRevision += 1, the backend is unregistered, runtime = null.
ServiceStop ==
  /\ LifecycleCalls < MaxLifecycleCalls
  /\ service' = [service EXCEPT
                   !.lifecycleRevision = @ + 1,
                   !.runtime = 0,
                   !.stops = @ + 1]
  /\ UNCHANGED << coordVars, turnVars, parseVars, cacheVars, tasks, pairVars, monitor >>

\* The catch of the setup task: nothing when the revision has changed, else
\* the "setup failed" warning.
SetupCatch(i) ==
  [service EXCEPT
     !.setups[i].pc = "done",
     !.log = IF service.setups[i].revision # service.lifecycleRevision
               THEN @ ELSE Append(@, Observed(i, "setup-failed"))]

\* The promise of ensureAcpx settles and the setup task resumes: it returns
\* when the revision has changed, else it calls runtime?.probeAvailability()
\* and awaits it.
EnsureAcpxSettles(i, outcome) ==
  /\ service.setups[i].pc = "ensureAcpx"
  /\ service' =
       IF outcome = "throw" THEN SetupCatch(i)
       ELSE IF service.setups[i].revision # service.lifecycleRevision
         THEN [service EXCEPT !.setups[i].pc = "done"]
       ELSE [service EXCEPT
               !.setups[i].pc = "probeAvailability",
               !.log = IF service.runtime = 0
                         THEN @ ELSE Append(@, Observed(i, "probeAvailability"))]
  /\ UNCHANGED << coordVars, turnVars, parseVars, cacheVars, tasks, pairVars, monitor >>

\* The promise of probeAvailability settles and the setup task resumes: it
\* reads runtime?.isHealthy() of the `runtime` of that moment and logs
\* "ready" or "probe failed"; a rejection goes to the catch.
ProbeAvailabilitySettles(i, outcome, healthy) ==
  /\ service.setups[i].pc = "probeAvailability"
  /\ service' =
       IF outcome = "throw" THEN SetupCatch(i)
       ELSE [service EXCEPT
               !.setups[i].pc = "done",
               !.log = Append(@, Observed(i, IF service.runtime # 0 /\ healthy
                                               THEN "ready" ELSE "probe-failed"))]
  /\ UNCHANGED << coordVars, turnVars, parseVars, cacheVars, tasks, pairVars, monitor >>

ServiceInit ==
  /\ CoordInit /\ NoTurn /\ NoLine /\ NoCache /\ NoTasks
  /\ NoPeer /\ NoMonitor
  /\ service = ServiceCreated

ServiceNext ==
  \/ ServiceStart
  \/ ServiceStop
  \/ \E i \in 1..Len(service.setups), outcome \in {"ok", "throw"} :
       EnsureAcpxSettles(i, outcome)
  \/ \E i \in 1..Len(service.setups), outcome \in {"ok", "throw"}, healthy \in BOOLEAN :
       ProbeAvailabilitySettles(i, outcome, healthy)

SpecService == ServiceInit /\ [][ServiceNext]_vars

\* ------------------------------------------- the Slack socket-mode monitor

\* SLACK_SOCKET_RECONNECT_POLICY; the delays play no part here.
SLACK_SOCKET_RECONNECT_POLICY == [maxAttempts |-> 12]

\* The socket-mode loop of monitorSlackProvider.  monitor.pc is the await
\* the loop stands at: "start" (app.start()), "connected"
\* (waitForSlackSocketDisconnect), "sleeping" (sleepWithAbort), or how it
\* ended: "threw", "returned".  monitor.failures counts the connections that
\* failed since the loop began, rejected starts and disconnects alike.

\* reconnectAttempts += 1, then the test against maxAttempts: the loop
\* throws, or logs the retry and sleeps.
AfterFailure(m) ==
  LET attempts == m.reconnectAttempts + 1
  IN  [m EXCEPT
         !.reconnectAttempts = attempts,
         !.failures = @ + 1,
         !.pc = IF /\ SLACK_SOCKET_RECONNECT_POLICY.maxAttempts > 0
                   /\ attempts >= SLACK_SOCKET_RECONNECT_POLICY.maxAttempts
                  THEN "threw" ELSE "sleeping"]

\* app.start() resolves: reconnectAttempts = 0, and the loop waits for a
\* disconnect unless the signal is aborted.
AppStartResolves ==
  /\ monitor.pc = "start"
  /\ monitor' = [monitor EXCEPT
                   !.reconnectAttempts = 0,
                   !.pc = IF monitor.aborted THEN "returned" ELSE "connected"]
  /\ UNCHANGED << coordVars, turnVars, parseVars, cacheVars, tasks, pairVars, service >>

\* app.start() rejects.
AppStartRejects ==
  /\ monitor.pc = "start"
  /\ monitor.failures < MaxFailures
  /\ monitor' = AfterFailure(monitor)
  /\ UNCHANGED << coordVars, turnVars, parseVars, cacheVars, tasks, pairVars, service >>

\* The socket emits disconnected, unable_to_socket_mode_start or error while
\* the signal is not aborted.
SocketDisconnects ==
  /\ monitor.pc = "connected"
  /\ ~monitor.aborted
  /\ monitor.failures < MaxFailures
  /\ monitor' = AfterFailure(monitor)
  /\ UNCHANGED << coordVars, turnVars, parseVars, cacheVars, tasks, pairVars, service >>

\* sleepWithAbort settles: a rejection (the signal aborted) breaks the loop,
\* else the loop goes round to app.start().
SleepEnds ==
  /\ monitor.pc = "sleeping"
  /\ monitor' = [monitor EXCEPT !.pc = IF monitor.aborted THEN "returned" ELSE "start"]
  /\ UNCHANGED << coordVars, turnVars, parseVars, cacheVars, tasks, pairVars, service >>

\* The abort signal fires: waitForSlackSocketDisconnect resolves and the
\* loop breaks; a pending app.start() or sleep settles in its own step.
Abort ==
  /\ ~monitor.aborted
  /\ monitor.pc \in {"start", "connected", "sleeping"}
  /\ monitor' = [monitor EXCEPT
                   !.aborted = TRUE,
                   !.pc = IF monitor.pc = "connected" THEN "returned" ELSE @]
  /\ UNCHANGED << coordVars, turnVars, parseVars, cacheVars, tasks, pairVars, service >>

MonitorInit ==
  /\ CoordInit /\ NoTurn /\ NoLine /\ NoCache /\ NoTasks
  /\ NoPeer /\ NoService
  /\ monitor = MonitorCreated

MonitorNext ==
  \/ AppStartResolves
  \/ AppStartRejects
  \/ SocketDisconnects
  \/ SleepEnds
  \/ Abort

SpecMonitor == MonitorInit /\ [][MonitorNext]_vars

\* ------------------------------------------------------------------ claims

\* The last call was a deliver().
Delivered == last.op = "deliver"

\* C1: whatever the sequence of startReplyLifecycle() and deliver() calls,
\* onReplyStart has been invoked exactly once if some call was a
\* startReplyLifecycle() or a deliver() with visible content, and never
\* otherwise.
C1_ReplyStartExactlyOnce ==
  onReplyStartCalls = (IF lifecycleRequested THEN 1 ELSE 0)

\* A visible deliver() that came after the lifecycle had been started.
C1_Witness ==
  /\ Delivered /\ IsVisiblePayload(last.payload)
  /\ last.invoked = 0
  /\ onReplyStartCalls = 1

\* C2 (as claimed): deliver() never throws or rejects, whichever sink fails
\* and however it fails.
C2_DeliverNeverThrows == Delivered => last.returned # "threw"

\* C3: on the routed path, a tool delivery with allowEdit and a recorded
\* handle whose edit action rejects attempts the edit once and calls
\* routeReply once; the rejection of the edit is not the delivery's error.
C3_EditFailureFallsBack ==
  ( /\ Delivered /\ RoutesToOriginating
    /\ last.kind = "tool" /\ last.meta.allowEdit
    /\ last.handleMessageId # NoMessageId
    /\ last.editOutcome = "throw" )
  => /\ last.edits = 1
     /\ last.routes = 1
     /\ (last.routeOutcome = "ok" => last.returned = "true")
     /\ (last.routeOutcome = "failed" => last.returned = "false")
     /\ (last.returned = "threw" => last.routeOutcome = "threw")

\* The edit rejected and the fresh message was sent.
C3_Witness ==
  /\ Delivered /\ last.editOutcome = "throw"
  /\ last.edits = 1 /\ last.routes = 1 /\ last.returned = "true"

\* A tool delivery with allowEdit, text that is not blank, and a handle
\* recorded for its call id, on a coordinator with shouldRouteToOriginating.
EditableDelivery ==
  /\ Delivered /\ shouldRouteToOriginating
  /\ last.kind = "tool" /\ last.meta.allowEdit
  /\ HasNonWhitespace(last.payload.hasText, last.payload.text)
  /\ last.handleMessageId # NoMessageId

C5_RoutedCountsAreTrueReturns ==
  RoutesToOriginating => \A k \in ReplyDispatchKind : routedCounts[k] = trueReturns[k]

\* A send, then an edit that resolved, then an edit that rejected with a
\* fallback send that succeeded: three tool deliveries counted.
C5_Witness ==
  /\ RoutesToOriginating /\ Delivered
  /\ last.editOutcome = "throw" /\ last.returned = "true"
  /\ routedCounts["tool"] = 3

\* The dispatcher method the direct path is to use for a kind.
MethodOfKind(kind) ==
  CASE kind = "tool" -> "sendToolResult"
    [] kind = "block" -> "sendBlockReply"
    [] kind = "final" -> "sendFinalReply"

C7_BlockAccumulation ==
  /\ accumulatedBlockText = JoinLines(blockLog)
  /\ blockCount = Len(blockLog)

\* Two visible blocks, then a whitespace-only block that changed nothing.
C7_Witness ==
  /\ blockLog = << <<"a">>, <<" ", "b">> >>
  /\ accumulatedBlockText = <<"a", NL, " ", "b">>
  /\ Delivered /\ last.kind = "block" /\ last.payload = TextPayload(<<" ">>)

\* C8: a deliver() asks for reply-lifecycle start exactly when its payload
\* has visible content; a payload with none never invokes onReplyStart and
\* changes neither accumulatedBlockText nor blockCount.
C8_EmptyDeliveryIsSilent ==
  [][ (last'.op = "deliver" /\ calls' = calls + 1)
      => /\ last'.requested <=> IsVisiblePayload(last'.payload)
         /\ ~IsVisiblePayload(last'.payload)
              => /\ onReplyStartCalls' = onReplyStartCalls
                 /\ startedReplyLifecycle' = startedReplyLifecycle
                 /\ accumulatedBlockText' = accumulatedBlockText
                 /\ blockCount' = blockCount ]_vars

\* A whitespace-only block delivery, the second call of a coordinator whose
\* lifecycle has still not started.
C8_Witness ==
  /\ Delivered /\ last.kind = "block" /\ last.payload = TextPayload(<<" ">>)
  /\ ~last.requested
  /\ calls >= 2 /\ ~startedReplyLifecycle /\ onReplyStartCalls = 0

\* A text of whitespace only, the empty text included.
IsBlankText(text) == \A i \in 1..Len(text) : text[i] \in Whitespace

\* The text embeds the code.
ContainsCode(text, code) == \E i \in 1..Len(text) : text[i] = code

\* C9: a turn whose prompt is empty or whitespace-only never invokes the
\* runtime, never calls the reply-lifecycle callback, delivers nothing, and
\* ends without a result object.
C9_EmptyPromptIsNoOp ==
  IsBlankText(prompt)
  => /\ pc \in {"policy-check", "skipped-empty"}
     /\ runTurnCalls = 0
     /\ onReplyStartCalls = 0
     /\ calls = 0 /\ deliveries = ZeroCounts
     /\ \A s \in Sinks : sinkCalls[s] = 0
     /\ ~result.returned

\* The whitespace-only prompt was dispatched and skipped.
C9_Witness ==
  /\ prompt = <<" ", " ", " ">>
  /\ pc = "skipped-empty"

\* C10: once a turn with a non-empty prompt has met a dispatch-policy
\* error, the runtime has not been invoked and exactly one delivery was
\* made: a final reply whose text contains the error's code, handed to
\* sendFinalReply once on the direct path (to routeReply once on the routed
\* path) and to no other sink.
C10_PolicyErrorShortCircuits ==
  (dispatchPolicyError # "" /\ ~IsBlankText(prompt) /\ pc # "policy-check")
  => /\ pc = "error"
     /\ runTurnCalls = 0
     /\ deliveries = [ZeroCounts EXCEPT !["final"] = 1]
     /\ Delivered /\ last.kind = "final"
     /\ ContainsCode(last.payload.text, dispatchPolicyError)
     /\ ContainsCode(last.sent.text, dispatchPolicyError)
     /\ \A s \in Sinks :
          sinkCalls[s] = IF s = (IF RoutesToOriginating THEN "routeReply" ELSE "sendFinalReply")
                           THEN 1 ELSE 0

\* The refusal reached sendFinalReply on the direct path.
C10_Witness ==
  /\ dispatchPolicyError = "ACP_DISPATCH_DISABLED"
  /\ prompt = <<"t">>
  /\ pc = "error" /\ ~RoutesToOriginating
  /\ sinkCalls["sendFinalReply"] = 1 /\ last.method = "sendFinalReply"
  /\ ContainsCode(last.sent.text, "ACP_DISPATCH_DISABLED")

\* ---------------------------------------------- claims about a turn

SumCounts(counts) == counts["tool"] + counts["block"] + counts["final"]

\* The position of the first done or error event of a stream, one past its
\* end when it has none.
TerminalIndex(log) ==
  IF \E i \in 1..Len(log) : log[i].type \in {"done", "error"}
    THEN CHOOSE i \in 1..Len(log) :
           /\ log[i].type \in {"done", "error"}
           /\ \A j \in 1..(i - 1) : log[j].type \notin {"done", "error"}
    ELSE Len(log) + 1

\* The kind an event is to be delivered as: output text as a block, tool
\* calls and status updates as tool deliveries when their tag is visible,
\* nothing else.
ExpectedKind(e) ==
  CASE e.type = "text_delta" /\ e.stream = "output" /\ e.text # <<>> -> "block"
    [] e.type \in {"tool_call", "status"} /\ tagVisibility[e.tag] -> "tool"
    [] OTHER -> "none"

\* The deliveries made for the event of the given index.
DeliveriesFor(i) == {k \in 1..Len(sinkLog) : sinkLog[k].index = i}

\* `sub` occurs in `text`.
ContainsText(text, sub) ==
  \E i \in 0..(Len(text) - Len(sub)) : \A j \in 1..Len(sub) : text[i + j] = sub[j]

\* C11: the runtime is invoked at most once per dispatch call, and only
\* for a non-empty prompt, with no dispatch-level and no agent-level policy
\* error, and a session resolution of kind ready.
C11_RuntimeInvokedOnlyWhenReady ==
  /\ runTurnCalls <= 1
  /\ runTurnCalls = 1
       => /\ ~IsBlankText(prompt)
          /\ dispatchPolicyError = "" /\ agentPolicyError = ""
          /\ resolution = "ready"

\* The runtime was invoked for a prompt with surrounding whitespace.
C11_Witness ==
  /\ runTurnCalls = 1 /\ pc = "running"
  /\ prompt = <<" ", "t", NL>>
  /\ resolution = "ready"

\* The stream [tool_call(id), tool_call_update(same id), done] was handed
\* to a turn that routes to the originating channel and shows the tool tags.
ToolLifecycleStream ==
  /\ RoutesToOriginating
  /\ tagVisibility["tool_call"] /\ tagVisibility["tool_call_update"]
  /\ Len(eventLog) = 3
  /\ eventLog[1].type = "tool_call" /\ eventLog[1].tag = "tool_call"
  /\ eventLog[2].type = "tool_call" /\ eventLog[2].tag = "tool_call_update"
  /\ eventLog[2].toolCallId = eventLog[1].toolCallId
  /\ eventLog[3].type = "done"

\* One routeReply call, made for the first event, and one edit action, made
\* for the second event with the messageId that routeReply answered.
OneSendThenOneEdit ==
  /\ sinkCalls["routeReply"] = 1 /\ sinkCalls["edit"] = 1
  /\ Len(sinkLog) = 2
  /\ sinkLog[1].index = 1 /\ sinkLog[1].rec.routes = 1 /\ sinkLog[1].rec.edits = 0
  /\ sinkLog[2].index = 2 /\ sinkLog[2].rec.edits = 1 /\ sinkLog[2].rec.routes = 0
  /\ sinkLog[2].rec.editMessageId = sinkLog[1].rec.routeMessageId
  /\ sinkLog[2].rec.editMessageId # NoMessageId

\* allowEdit is set only on deliveries made for events tagged tool_call_update.
AllowEditOnlyForUpdates ==
  \A k \in 1..Len(sinkLog) :
    sinkLog[k].rec.meta.allowEdit
      => /\ sinkLog[k].index \in 1..Len(eventLog)
         /\ eventLog[sinkLog[k].index].tag = "tool_call_update"

\* C12 as stated: the stream gives one routeReply call and one edit action
\* whatever the sinks answer.
C12_OneSendOneEditAlways ==
  /\ ToolLifecycleStream => OneSendThenOneEdit
  /\ AllowEditOnlyForUpdates

\* C12: with originating routing and the tool tags visible, the stream
\* [tool_call(id), tool_call_update(same id), done] gives exactly one
\* routeReply call (first event) and exactly one edit action (second event)
\* carrying the messageId that routeReply answered, provided routeReply
\* answered ok with a messageId and the edit action resolved; allowEdit is
\* set only for events tagged tool_call_update.
C12_OneSendOneEditWhenSupported ==
  /\ ( /\ ToolLifecycleStream
       /\ sinkLog[1].rec.routeOutcome = "ok"
       /\ sinkLog[1].rec.routeMessageId # NoMessageId
       /\ sinkLog[2].rec.editOutcome # "throw" )
     => OneSendThenOneEdit
  /\ AllowEditOnlyForUpdates

\* The tool message sent for tool_call was edited for tool_call_update.
C12_Witness ==
  /\ ToolLifecycleStream /\ pc = "done"
  /\ OneSendThenOneEdit
  /\ sinkLog[2].rec.editOutcome = "ok" /\ sinkLog[2].rec.returned = "true"
  /\ sinkLog[2].rec.meta.allowEdit /\ ~sinkLog[1].rec.meta.allowEdit

\* C13: a turn that passed the gates and ran the runtime has called
\* onReplyStart exactly once, whether its events are hidden or delivered.
C13_ReplyStartOncePerRunTurn ==
  runTurnCalls = 1 => onReplyStartCalls = 1

\* A turn whose only event before done is a hidden usage_update status.
C13_Witness ==
  /\ pc = "done" /\ runTurnCalls = 1
  /\ ~tagVisibility["usage_update"]
  /\ Len(eventLog) = 2
  /\ eventLog[1].tag = "usage_update" /\ eventLog[2].type = "done"
  /\ SumCounts(deliveries) = 0
  /\ onReplyStartCalls = 1

\* Nothing was delivered in the turn and no delivery is under way.
NothingDelivered == SumCounts(deliveries) = 0 /\ inFlight = {} /\ sinkLog = <<>>

\* C14 as stated: a turn in which nothing is delivered never triggers
\* onReplyStart.
C14_SilentTurnNeverStartsLifecycle ==
  NothingDelivered => onReplyStartCalls = 0

\* C14: a turn in which nothing is delivered triggers onReplyStart only
\* when it invoked the runtime: once, at the start of the turn, and never
\* for a turn that stopped before the runtime.
C14_SilentTurnStartsLifecycleOnlyWithRuntime ==
  NothingDelivered => onReplyStartCalls = runTurnCalls

\* A turn whose events were all suppressed: a thought and an empty delta.
C14_Witness ==
  /\ pc = "done" /\ NothingDelivered
  /\ Len(eventLog) = 3
  /\ eventLog[1].stream = "thought"
  /\ eventLog[2].type = "text_delta" /\ eventLog[2].text = <<>>
  /\ eventLog[3].type = "done"
  /\ onReplyStartCalls = 1

\* C15: done and error are terminal: every delivery made or under way in
\* a turn belongs to an event at or before the first done or error event of
\* the stream (at it only for the error's own final reply), whatever the
\* runtime hands to onEvent afterwards.
C15_DoneAndErrorAreTerminal ==
  LET terminal == TerminalIndex(eventLog)
      Processed(i) ==
        \/ i < terminal
        \/ i = terminal /\ i <= Len(eventLog) /\ eventLog[i].type = "error"
  IN  /\ \A k \in 1..Len(sinkLog) : sinkLog[k].index = 0 \/ Processed(sinkLog[k].index)
      /\ \A t \in inFlight : Processed(t.index)
      /\ terminal <= Len(eventLog)
           => /\ pc = (IF eventLog[terminal].type = "error" THEN "error" ELSE "done")
              /\ Len(sinkLog) <= terminal

\* The runtime handed a text delta and a tool call to onEvent after done.
C15_Witness ==
  /\ pc = "done" /\ Len(eventLog) = 3
  /\ eventLog[1].type = "done"
  /\ ExpectedKind(eventLog[2]) = "block" /\ ExpectedKind(eventLog[3]) = "tool"
  /\ sinkLog = <<>> /\ calls = 1

\* C16: an error event observed while the turn is running gives exactly
\* one delivery, of kind final, whose text embeds the error code and the
\* error message; deliver() resolves to a boolean for it.
C16_ErrorEventGivesOneFinal ==
  \A i \in 1..Len(eventLog) :
    (eventLog[i].type = "error" /\ i = TerminalIndex(eventLog))
      => /\ Cardinality(DeliveriesFor(i)) = 1
         /\ \A k \in DeliveriesFor(i) :
              /\ sinkLog[k].rec.kind = "final"
              /\ ContainsText(sinkLog[k].rec.payload.text, eventLog[i].text)
              /\ ContainsCode(sinkLog[k].rec.payload.text, TurnErrorCode)
              /\ sinkLog[k].rec.returned \in {"true", "false"}
              /\ sinkLog[k].rec.method \in {"none", "sendFinalReply"}
         /\ deliveries["final"] = 1

\* An error event after a delivered block: the error reached sendFinalReply.
C16_Witness ==
  /\ pc = "error" /\ runTurnCalls = 1 /\ ~RoutesToOriginating
  /\ Len(eventLog) = 2 /\ eventLog[1].type = "text_delta" /\ eventLog[2].type = "error"
  /\ Len(sinkLog) = 2
  /\ sinkLog[2].index = 2 /\ sinkLog[2].rec.method = "sendFinalReply"
  /\ ContainsText(sinkLog[2].rec.sent.text, <<"boom">>)

\* C17: the deliveries of a turn are made one at a time and in the order
\* of the events: at most one deliver() call is under way, it is the one
\* for the event handed over last, every delivery that ran belongs to an
\* earlier event than the one under way, and the deliveries that ran are in
\* the order of their events and carry their events' text.
C17_DeliveriesInEventOrder ==
  /\ Cardinality(inFlight) <= 1
  /\ \A t \in inFlight :
       /\ t.index = Len(eventLog)
       /\ \A k \in 1..Len(sinkLog) : sinkLog[k].index < t.index
  /\ \A k, l \in 1..Len(sinkLog) : k < l => sinkLog[k].index < sinkLog[l].index
  /\ \A k \in 1..Len(sinkLog) :
       sinkLog[k].index # 0
         => /\ sinkLog[k].index \in 1..Len(eventLog)
            /\ ContainsText(sinkLog[k].rec.payload.text, eventLog[sinkLog[k].index].text)

\* Three events were delivered one after the other: a block, a tool
\* message and a block.
C17_Witness ==
  /\ Len(eventLog) = 3 /\ Len(sinkLog) = 3 /\ inFlight = {}
  /\ \A k \in 1..3 : sinkLog[k].index = k
  /\ sinkLog[1].rec.kind = "block" /\ sinkLog[2].rec.kind = "tool"
  /\ sinkLog[3].rec.kind = "block"

\* C18: a delivery that failed does not end the turn: every event before
\* the first done or error event of the stream that is to be delivered has
\* its one delivery, of its own kind, made or under way, whatever the
\* earlier deliveries returned, and the turn keeps running.
C18_FailedDeliveryDoesNotAbort ==
  /\ \A i \in 1..Len(eventLog) :
       (i < TerminalIndex(eventLog) /\ ExpectedKind(eventLog[i]) # "none")
         => \/ \E t \in inFlight : t.index = i /\ t.kind = ExpectedKind(eventLog[i])
            \/ /\ Cardinality(DeliveriesFor(i)) = 1
               /\ \A k \in DeliveriesFor(i) : sinkLog[k].rec.kind = ExpectedKind(eventLog[i])
  /\ ( /\ \E k \in 1..Len(sinkLog) : sinkLog[k].rec.returned = "false"
       /\ TerminalIndex(eventLog) > Len(eventLog)
       /\ ~result.returned /\ runTurnCalls = 1 )
     => pc = "running"

\* The first delivery was rejected by the sink and the next two events were
\* delivered.
C18_Witness ==
  /\ Len(sinkLog) = 3 /\ pc = "running"
  /\ sinkLog[1].index = 1 /\ sinkLog[1].rec.returned = "false"
  /\ sinkLog[2].index = 2 /\ sinkLog[2].rec.returned = "true"
  /\ sinkLog[3].index = 3 /\ sinkLog[3].rec.returned = "false"

\* C19: under every tag visibility, no delivery is ever made or started
\* for a text_delta event of stream thought, and a text_delta event of
\* stream output with non-empty text is delivered as a block and as nothing
\* else.
C19_ThoughtsNeverDelivered ==
  \A i \in 1..Len(eventLog) :
    LET e == eventLog[i]
    IN  /\ (e.type = "text_delta" /\ e.stream = "thought")
             => /\ DeliveriesFor(i) = {}
                /\ \A t \in inFlight : t.index # i
        /\ (e.type = "text_delta" /\ e.stream = "output" /\ e.text # <<>>)
             => /\ \A k \in DeliveriesFor(i) :
                     /\ sinkLog[k].rec.kind = "block"
                     /\ sinkLog[k].rec.method \in {"none", "sendBlockReply"}
                /\ \A t \in inFlight : t.index = i => t.kind = "block"
                /\ (i < TerminalIndex(eventLog) /\ \A t \in inFlight : t.index # i)
                     => Cardinality(DeliveriesFor(i)) = 1

\* With every tag visible, a thought was dropped and the output text after
\* it was handed to sendBlockReply.
C19_Witness ==
  /\ tagVisibility["usage_update"] /\ ~RoutesToOriginating
  /\ Len(eventLog) = 2
  /\ eventLog[1].type = "text_delta" /\ eventLog[1].stream = "thought"
  /\ eventLog[1].text # <<>>
  /\ eventLog[2].type = "text_delta" /\ eventLog[2].stream = "output"
  /\ Len(sinkLog) = 1 /\ sinkLog[1].index = 2
  /\ sinkLog[1].rec.method = "sendBlockReply"

\* ---------------------------------------- claims about the projector

\* The text is one JSON value that is an object.
IsJsonObjectText(text) == JsonParse(text).ok /\ JsonParse(text).val.t = "obj"

\* C20: a line that is non-empty after trimming and is not a JSON object
\* (not JSON at all, or a JSON number, string, array, boolean or null) is
\* projected to {type: status, text: <trimmed line>} and never to null.
C20_UnstructuredLineBecomesStatus ==
  (projected # NotParsed /\ ~IsBlankText(line) /\ ~IsJsonObjectText(Trim(line)))
    => /\ projected # NullEvent
       /\ projected = RuntimeEvent("status", Trim(line), "", <<>>)

\* The record of a line that is a JSON object, as it is dispatched.
RecordOfLine == ResolveStructuredPromptPayload(JsonParse(Trim(line)).val)

\* The line was parsed and is a record of the given type.
ProjectedRecordOfType(types) ==
  /\ projected # NotParsed
  /\ IsJsonObjectText(Trim(line))
  /\ RecordOfLine.type \in types

\* C21: a usage_update record is projected to a status event with tag
\* usage_update; used and size are in it exactly when the record's value is
\* a finite number (then with that value, zero included), and the text is
\* "usage updated: {used}/{size}" when both are, "usage updated" otherwise.
C21_UsageUpdateProjection ==
  LET used == Get(RecordOfLine.payload, <<"used">>)
      size == Get(RecordOfLine.payload, <<"size">>)
  IN  ProjectedRecordOfType({<<"usage_update">>})
        => /\ projected.type = "status" /\ projected.tag = <<"usage_update">>
           /\ projected.used.has = (used.t = "num")
           /\ projected.size.has = (size.t = "num")
           /\ projected.used.has => projected.used.n = used.n
           /\ projected.size.has => projected.size.n = size.n
           /\ projected.text =
                (IF used.t = "num" /\ size.t = "num"
                   THEN <<"usage updated: ", NumberText(used.n), "/", NumberText(size.n)>>
                   ELSE <<"usage updated">>)

\* A usage_update whose used is a number that is not finite was projected
\* without used.
C21_Witness ==
  /\ ProjectedRecordOfType({<<"usage_update">>})
  /\ Get(RecordOfLine.payload, <<"used">>).t = "inf"
  /\ ~projected.used.has /\ projected.size.has /\ projected.size.n = 12
  /\ projected.text = <<"usage updated">>

\* The field of the line's record, as a trimmed string.
RecordField(name) == AsTrimmedString(Get(RecordOfLine.payload, <<name>>))

\* C22 as stated: an error record is projected to an error event whose
\* message is the record's message, or "runtime error" when it has none.
C22_ErrorDefaultsToRuntimeError ==
  LET message == Get(RecordOfLine.payload, <<"message">>)
  IN  ProjectedRecordOfType({<<"error">>})
        => /\ projected.type = "error"
           /\ projected.message =
                (IF message.t = "str" THEN message.s ELSE <<"runtime error">>)

\* C22: an error record is projected to an error event whose message is the
\* record's message trimmed, or "acpx runtime error" when the record has no
\* message, a blank one or one that is not a string; a code that is a
\* non-blank string and a retryable that is a boolean are passed through,
\* and each is absent from the event when absent from the record.
C22_ErrorDefaultsToAcpxRuntimeError ==
  LET message == Get(RecordOfLine.payload, <<"message">>)
      code == Get(RecordOfLine.payload, <<"code">>)
      retryable == Get(RecordOfLine.payload, <<"retryable">>)
  IN  ProjectedRecordOfType({<<"error">>})
        => /\ projected.type = "error"
           /\ projected.message =
                (IF message.t = "str" /\ Trim(message.s) # <<>>
                   THEN Trim(message.s) ELSE <<"acpx runtime error">>)
           /\ (code.t = "str" /\ code.s # <<>> /\ Trim(code.s) = code.s)
                => projected.code = code.s
           /\ code = JUndefined => projected.code = <<>>
           /\ retryable.t = "bool"
                => projected.retryable = (IF retryable.b THEN "true" ELSE "false")
           /\ retryable = JUndefined => projected.retryable = "absent"

\* An error record without a message string was projected with the default
\* message.
C22_Witness ==
  /\ ProjectedRecordOfType({<<"error">>})
  /\ Get(RecordOfLine.payload, <<"message">>).t # "str"
  /\ projected.type = "error"
  /\ projected.message = <<"acpx runtime error">>

\* The tags whose status text is derived from the record's detail.
DetailTags ==
  { <<"available_commands_update">>, <<"current_mode_update">>,
    <<"config_option_update">>, <<"session_info_update">>, <<"plan">> }

\* The line's record carries none of the detail its tag's text is made of.
NoDisplayableDetail ==
  LET payload == RecordOfLine.payload
      commands == Get(payload, <<"availableCommands">>)
      entries == Get(payload, <<"entries">>)
      records == IF entries.t = "arr"
                   THEN { i \in 1..Len(entries.items) : entries.items[i].t = "obj" }
                   ELSE {}
      first == CHOOSE i \in records : \A j \in records : i <= j
  IN  CASE RecordOfLine.type = <<"available_commands_update">> ->
             commands.t # "arr" \/ commands.items = <<>>
        [] RecordOfLine.type = <<"current_mode_update">> ->
             RecordField("currentModeId") = <<>> /\ RecordField("modeId") = <<>>
               /\ RecordField("mode") = <<>>
        [] RecordOfLine.type = <<"config_option_update">> ->
             RecordField("id") = <<>> /\ RecordField("configOptionId") = <<>>
        [] RecordOfLine.type = <<"session_info_update">> ->
             RecordField("summary") = <<>> /\ RecordField("message") = <<>>
        [] RecordOfLine.type = <<"plan">> ->
             \/ records = {}
             \/ AsTrimmedString(Get(entries.items[first], <<"content">>)) = <<>>
        [] OTHER -> FALSE

\* C23 as stated: a record of one of the five tags without displayable
\* detail is projected to null, any other to a status event with its tag.
C23_NoDetailMeansNull ==
  ProjectedRecordOfType(DetailTags)
    => IF NoDisplayableDetail
         THEN projected = NullEvent
         ELSE projected.type = "status" /\ projected.tag = RecordOfLine.type

\* C23: of the five tags only a plan without entry content is projected to
\* null; every other record of these tags is projected to a status event
\* with its tag and a non-empty text, which is the tag's generic text when
\* the record has no detail.
C23_OnlyPlanWithoutContentIsNull ==
  ProjectedRecordOfType(DetailTags)
    => IF RecordOfLine.type = <<"plan">> /\ NoDisplayableDetail
         THEN projected = NullEvent
         ELSE /\ projected.type = "status" /\ projected.tag = RecordOfLine.type
              /\ projected.text # <<>>
              /\ NoDisplayableDetail =>
                   projected.text =
                     (CASE RecordOfLine.type = <<"available_commands_update">> ->
                             <<"available commands updated">>
                        [] RecordOfLine.type = <<"current_mode_update">> -> <<"mode updated">>
                        [] RecordOfLine.type = <<"config_option_update">> -> <<"config updated">>
                        [] OTHER -> <<"session updated">>)

\* A config update without an id was projected to the generic status.
C23_Witness ==
  /\ ProjectedRecordOfType({<<"config_option_update">>})
  /\ NoDisplayableDetail
  /\ projected.type = "status" /\ projected.text = <<"config updated">>

\* The deliveries of the turn of the given kind that returned true through
\* the given sinks.
SuccessfulDeliveries(kind, routed) ==
  { i \in 1..Len(sinkLog) :
      /\ sinkLog[i].rec.kind = kind
      /\ sinkLog[i].rec.returned = "true"
      /\ routed = (sinkLog[i].rec.method = "none") }

\* C24: the counts of a turn result are the dispatcher's queued counts plus,
\* once, the number of routed deliveries of each kind that succeeded; a
\* routed turn calls no dispatcher send method.
C24_RoutedCountsMergedOnce ==
  result.returned
    => /\ \A k \in ReplyDispatchKind :
            result.counts[k] = Cardinality(SuccessfulDeliveries(k, FALSE))
                                 + Cardinality(SuccessfulDeliveries(k, TRUE))
       /\ (shouldRouteToOriginating /\ originatingChannel # "" /\ originatingTo # "")
            => /\ \A k \in ReplyDispatchKind : SuccessfulDeliveries(k, FALSE) = {}
               /\ sinkCalls["sendToolResult"] = 0
               /\ sinkCalls["sendBlockReply"] = 0
               /\ sinkCalls["sendFinalReply"] = 0

\* A routed turn delivered one block and nothing else: counts.block is 1 and
\* sendBlockReply was not called.
C24_Witness ==
  /\ result.returned /\ runTurnCalls = 1
  /\ shouldRouteToOriginating /\ originatingChannel # "" /\ originatingTo # ""
  /\ Len(sinkLog) = 1 /\ sinkLog[1].rec.kind = "block"
  /\ sinkLog[1].rec.routeOutcome = "ok"
  /\ result.counts = [tool |-> 0, block |-> 1, final |-> 0]
  /\ sinkCalls["routeReply"] = 1 /\ sinkCalls["sendBlockReply"] = 0

\* C25 as stated: hasSlackThreadParticipation returns true only for a triple
\* of non-empty ids that recordSlackThreadParticipation was called with and
\* whose entry was not cleared or evicted since; a record for another triple
\* does not make it true.
C25_TrueOnlyForRecordedTriple ==
  (cacheLast.op = "has" /\ cacheLast.returned)
    => /\ cacheLast.accountId # <<>>
       /\ cacheLast.channelId # <<>>
       /\ cacheLast.threadTs # <<>>
       /\ <<cacheLast.accountId, cacheLast.channelId, cacheLast.threadTs>> \in recorded

\* C26: the cache never holds more than MAX_ENTRIES entries.
C26_AtMostMaxEntries == Len(threadParticipation) <= MAX_ENTRIES

\* A record found the cache full, evicted an entry, and left it full.
C26_Witness ==
  /\ cacheLast.op = "record"
  /\ Len(cacheLast.evictedFrom) = MAX_ENTRIES
  /\ cacheLast.evictedKey # <<>>
  /\ Len(threadParticipation) = MAX_ENTRIES

\* C27 as stated: the entry that a record evicts from a cache full of
\* unexpired entries has the oldest participation timestamp of the cache,
\* also when a thread was recorded again.
C27_EvictsOldestTimestamp ==
  (cacheLast.op = "record" /\ cacheLast.evictedKey # <<>>)
    => \A i, j \in 1..Len(cacheLast.evictedFrom) :
         cacheLast.evictedFrom[i].key = cacheLast.evictedKey
           => cacheLast.evictedFrom[i].timestamp <= cacheLast.evictedFrom[j].timestamp

\* C28: however the calls that start the reply lifecycle overlap, also when
\* one starts while the onReplyStart promise of another is pending,
\* onReplyStart is invoked exactly once.
C28_OverlappingStartsInvokeOnce ==
  /\ onReplyStartCalls <= 1
  /\ (\E i \in 1..Len(tasks) : tasks[i].pc # "idle") => onReplyStartCalls = 1

\* A deliver() reached the latch while the onReplyStart promise of another
\* call was pending, and returned without invoking it again.
C28_Witness ==
  \E i, j \in 1..Len(tasks) :
    /\ tasks[i].pc = "pending"
    /\ tasks[j].pc = "returned" /\ tasks[j].via = "deliver"
    /\ onReplyStartCalls = 1

\* The coordinator was built to route to the originating channel.
RoutingEnabled ==
  shouldRouteToOriginating /\ originatingChannel # "" /\ originatingTo # ""

\* Everything an edit in place asks for holds of the last delivery.
EditConditionsHold ==
  /\ RoutingEnabled
  /\ last.kind = "tool" /\ last.meta.allowEdit
  /\ last.handleMessageId # NoMessageId
  /\ HasNonWhitespace(last.payload.hasText, last.payload.text)

\* The last delivery ended in onReplyStart, before any sink.
EndedInReplyStart ==
  /\ last.invoked = 1 /\ last.returned = "threw"
  /\ last.edits = 0 /\ last.routes = 0 /\ last.method = "none"

\* C29: a deliver() invokes the edit action only when routing is enabled,
\* the kind is tool, meta.allowEdit is true, a handle with a messageId is
\* recorded for the tool call id, and the text is not blank; when one of
\* these fails no edit is attempted and a delivery that reaches its sink is
\* sent as a new message.
C29_EditOnlyWhenAllConditionsHold ==
  Delivered
    => /\ last.edits = 1 => EditConditionsHold
       /\ ~EditConditionsHold
            => /\ last.edits = 0
               /\ \/ EndedInReplyStart
                  \/ IF RoutingEnabled THEN last.routes = 1 ELSE last.method # "none"

\* A tool delivery whose call id has a recorded handle but whose meta does
\* not allow editing was sent by routeReply as a new message.
C29_Witness ==
  /\ Delivered /\ RoutingEnabled
  /\ last.kind = "tool" /\ ~last.meta.allowEdit
  /\ last.handleMessageId # NoMessageId
  /\ HasNonWhitespace(last.payload.hasText, last.payload.text)
  /\ last.edits = 0 /\ last.routes = 1 /\ last.returned = "true"

\* How many sink actions of the last delivery succeeded.
SuccessfulSinkActions ==
  (IF last.editOutcome = "ok" THEN 1 ELSE 0)
    + (IF last.routeOutcome = "ok" THEN 1 ELSE 0)
    + (IF last.sendOutcome = "true" THEN 1 ELSE 0)

\* C30: every deliver() takes the path its coordinator was built with, which
\* no call changes: the routed path calls only the edit action and
\* routeReply, the direct path only the dispatcher method of the kind, no
\* call reaches both, and a delivery that returns true made exactly one
\* successful sink action.
C30_OnePathPerCoordinator ==
  [][ /\ RoutingEnabled' = RoutingEnabled
      /\ Delivered'
           => /\ IF RoutingEnabled
                   THEN last'.method = "none"
                   ELSE /\ last'.edits = 0 /\ last'.routes = 0
                        /\ last'.method \in {"none", MethodOfKind(last'.kind)}
              /\ ~(last'.edits + last'.routes > 0 /\ last'.method # "none")
              /\ last'.returned = "true" => SuccessfulSinkActions' = 1 ]_vars

\* An edit that rejected was followed by a routeReply that succeeded: the
\* one successful sink action of a routed delivery that returned true.
C30_Witness ==
  /\ Delivered /\ RoutingEnabled
  /\ last.edits = 1 /\ last.editOutcome = "throw"
  /\ last.routes = 1 /\ last.routeOutcome = "ok"
  /\ last.method = "none" /\ last.returned = "true"

\* The JSON value of the line.
LineRecord == JsonParse(Trim(line)).val

\* The line is a session/update envelope whose params.update is an object.
IsUpdateEnvelope ==
  /\ Get(LineRecord, <<"method">>).t = "str"
  /\ Trim(Get(LineRecord, <<"method">>).s) = <<"session/update">>
  /\ Get(LineRecord, <<"params">>).t = "obj"
  /\ Get(Get(LineRecord, <<"params">>), <<"update">>).t = "obj"

\* The line has a flat sessionUpdate field that names a type.
HasFlatSessionUpdate ==
  /\ Get(LineRecord, <<"sessionUpdate">>).t = "str"
  /\ Trim(Get(LineRecord, <<"sessionUpdate">>).s) # <<>>

\* A string field of a record, <<>> when it is not a string.
StringField(record, name) ==
  IF Get(record, <<name>>).t = "str" THEN Trim(Get(record, <<name>>).s) ELSE <<>>

\* The type, tag and payload of the line in the order the envelope, the
\* flat sessionUpdate field and the flat type field are to be looked at.
ResolvedInOrder ==
  LET update == Get(Get(LineRecord, <<"params">>), <<"update">>)
  IN  IF IsUpdateEnvelope
        THEN [type |-> StringField(update, "sessionUpdate"), payload |-> update,
              tag |-> StringField(update, "sessionUpdate")]
      ELSE IF HasFlatSessionUpdate
        THEN [type |-> StringField(LineRecord, "sessionUpdate"), payload |-> LineRecord,
              tag |-> StringField(LineRecord, "sessionUpdate")]
      ELSE [type |-> StringField(LineRecord, "type"), payload |-> LineRecord,
            tag |-> StringField(LineRecord, "tag")]

\* The line is a record dispatched on its flat type field, with a sibling tag.
FlatTypeWithTag ==
  /\ ~IsUpdateEnvelope /\ ~HasFlatSessionUpdate
  /\ StringField(LineRecord, "tag") # <<>>

\* The record types whose event carries the tag the record came with.
TagCarryingTypes ==
  { <<"text">>, <<"thought">>, <<"tool_call">>, <<"tool_call_update">>,
    <<"client_operation">>, <<"update">> }

\* C31 as stated: type and tag are resolved from the envelope, else the flat
\* sessionUpdate, else the flat type, and the sibling tag of a flat type is
\* the tag of whatever event is emitted.
C31_ResolutionOrderTagAlwaysKept ==
  (projected # NotParsed /\ IsJsonObjectText(Trim(line)))
    => /\ projected = ProjectRecord(ResolvedInOrder.type, ResolvedInOrder.payload,
                                    ResolvedInOrder.tag)
       /\ (FlatTypeWithTag /\ projected # NullEvent)
            => projected.tag = StringField(LineRecord, "tag")

\* C31: type and tag are resolved from the envelope (its outer type field
\* ignored), else the flat sessionUpdate, else the flat type with its
\* sibling tag; the sibling tag is the tag of the event emitted for text,
\* thought, tool_call, tool_call_update, client_operation and update records.
C31_ResolutionOrder ==
  (projected # NotParsed /\ IsJsonObjectText(Trim(line)))
    => /\ projected = ProjectRecord(ResolvedInOrder.type, ResolvedInOrder.payload,
                                    ResolvedInOrder.tag)
       /\ (FlatTypeWithTag /\ projected # NullEvent
             /\ StringField(LineRecord, "type") \in TagCarryingTypes)
            => projected.tag = StringField(LineRecord, "tag")

\* An envelope that also has an outer type field was projected from its
\* update alone.
C31_Witness ==
  /\ projected # NotParsed /\ IsJsonObjectText(Trim(line))
  /\ IsUpdateEnvelope
  /\ StringField(LineRecord, "type") = <<"text">>
  /\ projected.type = "text_delta" /\ projected.text = <<"inner">>
  /\ projected.tag = <<"agent_message_chunk">>

\* The text a chunk record carries: that of its nested content, else its
\* top-level text.
ChunkText(record) ==
  LET content == Get(record, <<"content">>)
  IN  IF content.t = "obj" /\ Get(content, <<"text">>).t = "str"
         /\ Get(content, <<"text">>).s # <<>>
        THEN Get(content, <<"text">>).s
      ELSE IF Get(record, <<"text">>).t = "str" THEN Get(record, <<"text">>).s
      ELSE <<>>

\* The nested content of a chunk record names a type other than text.
HasNonTextContent(record) ==
  /\ Get(record, <<"content">>).t = "obj"
  /\ StringField(Get(record, <<"content">>), "type") \notin {<<>>, <<"text">>}

\* C32: a text_delta event never has empty text; a text or thought record
\* without a non-empty content string and a chunk record without text are
\* projected to null, and so is a chunk whose nested content has a type
\* other than text, whatever its top-level text.
C32_TextDeltaIsNeverEmpty ==
  LET type == RecordOfLine.type
      payload == RecordOfLine.payload
      content == Get(payload, <<"content">>)
  IN  /\ projected.type = "text_delta" => projected.text # <<>>
      /\ ProjectedRecordOfType({<<"text">>, <<"thought">>})
           => IF content.t = "str" /\ content.s # <<>>
                THEN projected.type = "text_delta" /\ projected.text = content.s
                ELSE projected = NullEvent
      /\ ProjectedRecordOfType({<<"agent_message_chunk">>, <<"agent_thought_chunk">>})
           => IF HasNonTextContent(payload) \/ ChunkText(payload) = <<>>
                THEN projected = NullEvent
                ELSE projected.type = "text_delta" /\ projected.text = ChunkText(payload)

\* A chunk with an image content and a top-level text was dropped.
C32_Witness ==
  /\ ProjectedRecordOfType({<<"agent_thought_chunk">>})
  /\ HasNonTextContent(RecordOfLine.payload)
  /\ Get(RecordOfLine.payload, <<"text">>).t = "str"
  /\ Get(RecordOfLine.payload, <<"text">>).s # <<>>
  /\ projected = NullEvent

\* C33: two coordinators share no mutable state: a deliver() or
\* startReplyLifecycle() call on one coordinator leaves the other's latch,
\* accumulated block text, block count, routed counts and tool-message map
\* as they were, and an edit made through a coordinator targets a message
\* that coordinator sent itself, never one recorded in the other.
C33_CoordinatorsAreIsolated ==
  [][ /\ calls' # calls => peer' = peer
      /\ (calls' # calls /\ last'.edits = 1) =>
           last'.editMessageId = MessageIdSentFor(active) ]_vars

\* Coordinator A sent a tool message for call id c, then B sent its own and
\* edited it, A's handle staying as recorded.
C33_Witness ==
  /\ active = "B"
  /\ peer.map[<<"c">>].messageId = "m1"
  /\ toolMessageByCallId[<<"c">>].messageId = "m2"
  /\ last.edits = 1
  /\ last.editMessageId = "m2"
  /\ peer.started /\ peer.counts["tool"] = 1

\* A sequence is the beginning of another.
IsPrefixOf(short, long) ==
  /\ Len(short) <= Len(long)
  /\ SubSeq(long, 1, Len(short)) = short

\* The call just made was a block delivery whose text is not blank.
BlockWithTextJustDelivered ==
  /\ last'.op = "deliver" /\ last'.kind = "block"
  /\ last'.payload.hasText
  /\ \E i \in 1..Len(last'.payload.text) : last'.payload.text[i] \notin {" ", NL}

\* C34: blockCount and accumulatedBlockText are updated before any sink is
\* attempted and never rolled back: a block delivery with non-whitespace
\* text adds one to blockCount and its text to accumulatedBlockText whatever
\* deliver() then returns (true, false, or a rejection of the sink), and no
\* call ever takes anything away from either.
C34_AccumulatedBeforeSinkNeverRolledBack ==
  [][ calls' = calls + 1 =>
        /\ blockCount' >= blockCount
        /\ IsPrefixOf(accumulatedBlockText, accumulatedBlockText')
        /\ BlockWithTextJustDelivered =>
             /\ blockCount' = blockCount + 1
             /\ Len(accumulatedBlockText') >= Len(accumulatedBlockText) + Len(last'.payload.text)
             /\ SubSeq(accumulatedBlockText',
                       Len(accumulatedBlockText') - Len(last'.payload.text) + 1,
                       Len(accumulatedBlockText')) = last'.payload.text ]_vars

\* A block whose sink answered false (routeReply ok: false, or the
\* dispatcher's sendBlockReply returning false) after an earlier block:
\* both are counted.
C34_Witness ==
  /\ Delivered /\ last.kind = "block"
  /\ last.payload = TextPayload(<<"a">>)
  /\ last.returned = "false"
  /\ (last.routes = 1 \/ last.method # "none")
  /\ blockCount = 2
  /\ accumulatedBlockText = <<" ", "b", NL, "a">>

\* C35: within a deliver() of visible content, the onReplyStart this call
\* invoked has completed (its promise resolved) before the call goes on to
\* the TTS transform, the edit action, routeReply or a dispatcher send; and
\* no deliver() goes on to a sink before onReplyStart was called.
C35_ReplyStartBeforeSinks ==
  \A i \in 1..Len(tasks) :
    tasks[i].reached # "no"
      => /\ tasks[i].via = "deliver"
         /\ onReplyStartCalls >= 1
         /\ startedReplyLifecycle
         /\ tasks[i].fired => (tasks[i].reached = "resolved" /\ tasks[i].pc = "resolved")

\* One deliver() invoked onReplyStart and went on once it had resolved;
\* another found the latch set and went on at once.
C35_Witness ==
  \E i, j \in 1..Len(tasks) :
    /\ tasks[i].via = "deliver" /\ tasks[i].fired /\ tasks[i].reached = "resolved"
    /\ tasks[j].via = "deliver" /\ tasks[j].pc = "returned" /\ tasks[j].reached = "returned"

\* C38: the latch is set in the step that invokes onReplyStart, before its
\* promise settles, and is never reset: once it is set it stays set, and
\* after onReplyStart has thrown or rejected no later startReplyLifecycle()
\* or deliver() invokes it again.
C38_LatchSurvivesRejection ==
  [][ /\ startedReplyLifecycle => startedReplyLifecycle'
      /\ onReplyStartCalls' # onReplyStartCalls
           => (~startedReplyLifecycle /\ startedReplyLifecycle')
      /\ SomeStartRejected => onReplyStartCalls' = onReplyStartCalls ]_vars

\* onReplyStart rejected; a startReplyLifecycle() and a deliver() that began
\* afterwards both returned without invoking it.
C38_Witness ==
  \E i, j, k \in 1..Len(tasks) :
    /\ tasks[i].pc = "rejected" /\ tasks[i].fired
    /\ tasks[j].late /\ tasks[j].via = "deliver" /\ tasks[j].pc = "returned"
    /\ tasks[k].late /\ tasks[k].via = "startReplyLifecycle" /\ tasks[k].pc = "returned"
    /\ onReplyStartCalls = 1

\* The call just made sent a new tool message for a call id through
\* routeReply, which answered ok with a messageId.
NewToolMessageJustSent ==
  /\ last'.op = "deliver" /\ last'.kind = "tool"
  /\ last'.meta.toolCallId # <<>>
  /\ last'.routeOutcome = "ok"
  /\ last'.routeMessageId # NoMessageId

\* C36: the tool-message map points at the message sent last for a call id:
\* every successful new tool send that carries a toolCallId and gets a
\* messageId back overwrites the handle of that id, also the fallback send
\* after a failed edit, so that a later edit targets the fallback message;
\* no other call changes a handle, and no entry is ever removed.
C36_HandleIsLastSentMessage ==
  [][ calls' = calls + 1 =>
        /\ \A id \in ToolCallIds :
             toolMessageByCallId'[id].messageId =
               IF NewToolMessageJustSent /\ id = last'.meta.toolCallId
                 THEN last'.routeMessageId
                 ELSE toolMessageByCallId[id].messageId
        /\ \A id \in ToolCallIds :
             toolMessageByCallId[id].messageId # NoMessageId
               => toolMessageByCallId'[id].messageId # NoMessageId
        /\ (last'.edits = 1 /\ last'.meta.toolCallId = <<"c">>)
             => last'.editMessageId = toolMessageByCallId[<<"c">>].messageId ]_vars

\* The edit of message m1 was rejected, the fallback send answered m2, and
\* the handle of the call id now names m2.
C36_Witness ==
  /\ Delivered /\ last.kind = "tool" /\ last.meta = Meta(<<"c">>, TRUE)
  /\ last.edits = 1 /\ last.editOutcome = "throw" /\ last.editMessageId = "m1"
  /\ last.routeOutcome = "ok" /\ last.routeMessageId = "m2"
  /\ toolMessageByCallId[<<"c">>].messageId = "m2"

\* The call just made was a routed tool delivery with allowEdit, a status
\* text that is not blank and a call id that is not blank, made when a handle
\* recorded with that same call id was in the map.
EditOfRecordedCallIdJustAsked ==
  /\ last'.op = "deliver" /\ last'.kind = "tool"
  /\ RoutingEnabled
  /\ last'.meta.allowEdit
  /\ \E i \in 1..Len(last'.meta.toolCallId) : last'.meta.toolCallId[i] # " "
  /\ last'.payload.hasText
  /\ \E i \in 1..Len(last'.payload.text) : last'.payload.text[i] \notin {" ", NL}
  /\ toolMessageByCallId[last'.meta.toolCallId].messageId # NoMessageId

\* C37 as stated: the handle recorded by a successful routed tool delivery
\* with meta.toolCallId X is found by a later allowEdit delivery with the
\* same X, for every X that is not blank after trimming, ids with leading or
\* trailing whitespace included: the later delivery edits the recorded
\* message.
C37_RecordedHandleIsFound ==
  [][ (calls' = calls + 1 /\ EditOfRecordedCallIdJustAsked)
        => /\ last'.edits = 1
           /\ last'.editMessageId =
                toolMessageByCallId[last'.meta.toolCallId].messageId ]_vars

\* C39 as stated: a setup task is stale once lifecycleRevision has changed
\* (a later stop() or start()), and a stale task does nothing more that can
\* be seen: it does not call probeAvailability and logs neither "ready" nor
\* "probe failed" nor "setup failed", whether the stop() came while it
\* awaited ensureAcpx or while it awaited probeAvailability.
C39_StaleSetupTaskIsSilent ==
  \A k \in 1..Len(service.log) : ~service.log[k].stale

\* C40 as stated: while the abort signal is not set, the socket-mode loop
\* has given up with an error once maxAttempts connections in a row have
\* failed, whether by app.start() rejecting or by the socket disconnecting
\* after a start; it does not go on retrying beyond that.
C40_GivesUpAfterMaxAttempts ==
  (~monitor.aborted
     /\ monitor.failures >= SLACK_SOCKET_RECONNECT_POLICY.maxAttempts)
    => monitor.pc = "threw"

====
